---- MODULE Spec2Model ----
(***************************************************************************)
(* State-machine model of the STM32 I2C v2 driver                          *)
(* (embassy-stm32/src/i2c/v2.rs): the master transaction engine, blocking  *)
(* and DMA-driven, and the slave operations, on top of a small model of    *)
(* the peripheral's registers, its byte counter and the DMA channel.       *)
(***************************************************************************)
EXTENDS Integers, Sequences, FiniteSets, TLC

\* ------------------------------------------------------------------ bounds
\* Longest single buffer.
MaxLen == 511
\* Longest buffer list handed to a vectored write.
MaxBufs == 2
\* Most START steps one operation is followed through (a poll loop that
\* programs START again on every wake-up is cut off here).
MaxStarts == 3
\* Longest buffer handed to a slave operation.
MaxSlaveLen == 2
\* Most address matches followed in one behaviour.
MaxMatches == 2
\* Largest input clock of Timings::new taken from the MHz grid.
MaxClockMHz == 64

\* ------------------------------------------------------- program constants
\* The per-step byte count is an 8-bit field: chunks of at most 255 bytes.
ChunkSize == 255

\* A minimum that always takes its second argument.
Min_second(a, b) == b
Min(a, b) == IF a <= b THEN a ELSE b

\* usize::saturating_sub
saturating_sub(a, b) == IF a >= b THEN a - b ELSE 0

\* completed_chunks / total_chunks of read_internal, write_internal and
\* blocking_write_vectored.
total_chunks(len) ==
    LET completed_chunks == len \div ChunkSize
    IN  IF completed_chunks * ChunkSize = len
        THEN completed_chunks
        ELSE completed_chunks + 1

\* A last-chunk index that is one too large.
last_chunk_idx_off_by_one(len) == total_chunks(len)
last_chunk_idx(len) == saturating_sub(total_chunks(len), 1)

\* chunk.len() of the number-th element of slice.chunks(255)
chunk_len(len, number) == Min(ChunkSize, len - ChunkSize * number)

\* ------------------------------------------------------------------ inputs
\* Buffer lengths around the chunk boundaries (0, 1, 45 bytes past a
\* multiple of 255) and the longest one: 0, 1, 45, 255, 256, 300, 510, 511.
Lens == {n \in 0..MaxLen : n % ChunkSize \in {0, 1, 45} \/ n = MaxLen}
\* Lengths of the two legs of a write-then-read.
LegLens == {0, 1, 256}
\* Lengths of the buffers of a vectored write.
VecLens == {0, 1, 256}
VecLists == UNION {[1..n -> VecLens] : n \in 0..MaxBufs}

\* The bytes of the idx-th write buffer, and the bytes the addressed device
\* returns: fixed patterns in which neighbouring bytes differ.
WByte(idx, i) == (101 * idx + 37 * i + 11) % 256
DevByte(k) == (53 * k + 7) % 256

BlockingOps == {"blocking_read", "blocking_write", "blocking_write_read",
                "blocking_write_vectored"}
AsyncOps == {"write", "write_vectored", "read", "write_read"}

Errors == {"Bus", "Arbitration", "Nack", "Timeout", "ZeroLengthTransfer"}

VARIABLES
    op,             \* the public operation being executed
    wlens,          \* lengths of the write buffers (one, or the vectored list)
    rlen,           \* length of the read buffer
    pc,             \* position of the driver in its code
    leg,            \* internal routines the public operation has completed
    ret,            \* what the last internal routine returned
    result,         \* what the public operation returned ("none" while running)
    value,          \* the payload of ret / result: a byte count or an address
    idx,            \* slice index (1-based) of the write buffer in progress
    number,         \* chunk number inside the slice / buffer
    pos,            \* bytes of the slice / buffer moved so far by the CPU
    remaining_len,  \* remaining_len of the DMA routines
    regs,           \* CR1, CR2, ISR and the peripheral's internal byte counter
    dma,            \* the DMA transfer handle
    woken,          \* the task's waker has been invoked
    expired,        \* the Timeout's deadline has passed
    trace,          \* START / continue / stop programming, in order
    txlog,          \* bytes written to TXDR, in order
    rxbuf           \* bytes stored into the read buffer, in order

vars == <<op, wlens, rlen, pc, leg, ret, result, value, idx, number, pos,
          remaining_len, regs, dma, woken, expired, trace, txlog, rxbuf>>

\* ---------------------------------------------------------------- registers
Cr1Reset == [tcie |-> FALSE, txdmaen |-> FALSE, rxdmaen |-> FALSE,
             addrie |-> FALSE, stopie |-> FALSE, txie |-> FALSE]
Cr2Reset == [start |-> FALSE, stop |-> FALSE, nbytes |-> 0, reload |-> FALSE,
             autoend |-> FALSE, dir |-> "W", nack |-> FALSE]
IsrReset == [txe |-> TRUE, rxne |-> FALSE, tc |-> FALSE, tcr |-> FALSE,
             berr |-> FALSE, arlo |-> FALSE, nackf |-> FALSE,
             addr |-> FALSE, stopf |-> FALSE, ovr |-> FALSE, dir |-> "W",
             addcode |-> 0]
\* left: bytes the peripheral still has to move in the programmed step;
\* armed: the START request in CR2 is the driver's own; busy: the bus is
\* owned; halted: an error ended the transfer; sent: bytes the device has
\* delivered; rxdr: the receive data register; slave: the peripheral was
\* addressed as a slave; mleft: bytes the remote master still wants to move;
\* matches: address matches seen so far; raised: the error condition the bus
\* has produced.
HwReset == [left |-> 0, armed |-> FALSE, busy |-> FALSE, halted |-> FALSE,
            sent |-> 0, rxdr |-> 0, slave |-> FALSE, mleft |-> 0,
            matches |-> 0, raised |-> "none"]

NoValue == [kind |-> "none", n |-> 0]
Bytes(n) == [kind |-> "bytes", n |-> n]

DmaIdle == [active |-> FALSE, dir |-> "tx", remaining |-> 0, total |-> 0]

\* A completion test that never waits.
DmaDone_always(d) == TRUE
\* A completion test that only sees a stopped transfer.
DmaDone_only_stopped(d) == ~d.active
\* The DMA transfer has moved all its bytes, or was stopped.
DmaDone(d) == ~d.active \/ d.remaining = 0

StartEv(dir, len, reload, autoend, restart) ==
    [ev |-> "start", dir |-> dir, len |-> len, reload |-> reload,
     autoend |-> autoend, restart |-> restart]
ContEv(len, reload) ==
    [ev |-> "cont", dir |-> "-", len |-> len, reload |-> reload,
     autoend |-> FALSE, restart |-> FALSE]
StopEv ==
    [ev |-> "stop", dir |-> "-", len |-> 0, reload |-> FALSE,
     autoend |-> FALSE, restart |-> FALSE]

\* TXIS: the transmit register is empty and the programmed step still needs
\* a byte.
TXIS(r) ==
    /\ r.isr.txe
    /\ r.hw.busy /\ ~r.hw.halted
    /\ IF r.hw.slave
       THEN r.isr.dir = "R" /\ ~r.isr.addr
       ELSE /\ ~r.cr2.start /\ ~r.cr2.stop
            /\ r.cr2.dir = "W"
            /\ r.hw.left > 0

\* ------------------------------------------------- master step programming
\* fn master_stop: cr2().write(|w| w.set_stop(true)) rewrites the whole
\* register; START is only ever cleared by hardware.
master_stop(r) ==
    [r EXCEPT !.cr2 = [Cr2Reset EXCEPT !.stop = TRUE, !.start = r.cr2.start],
              !.isr.tc = FALSE]

\* The CR2 write of master_read / master_write.
ProgramStart(r, dir, length, autoend, reload) ==
    [r EXCEPT !.cr2 = [@ EXCEPT !.start = TRUE, !.dir = dir,
                                !.nbytes = length, !.autoend = autoend,
                                !.reload = reload],
              !.isr.tc = FALSE,
              !.isr.tcr = IF length > 0 THEN FALSE ELSE @,
              !.hw.left = length,
              !.hw.armed = TRUE]

\* A write START programmed without the wait for a previous START.
master_write_without_wait(r, length, autoend, reload, exp) ==
    [res |-> "Ok",
     regs |-> ProgramStart(r, "W", length, autoend, reload),
     evs |-> <<StartEv("W", length, reload, autoend, FALSE)>>]
\* fn master_write: wait for a previous START to clear, then program the
\* step.  res = "Spin": the busy-wait keeps looping.
master_write(r, length, autoend, reload, exp) ==
    IF r.cr2.start
    THEN [res |-> IF exp THEN "Timeout" ELSE "Spin", regs |-> r, evs |-> <<>>]
    ELSE [res |-> "Ok",
          regs |-> ProgramStart(r, "W", length, autoend, reload),
          evs |-> <<StartEv("W", length, reload, autoend, FALSE)>>]

\* fn master_read: as master_write, but a restart skips the wait.
master_read(r, length, autoend, reload, restart, exp) ==
    IF ~restart /\ r.cr2.start
    THEN [res |-> IF exp THEN "Timeout" ELSE "Spin", regs |-> r, evs |-> <<>>]
    ELSE [res |-> "Ok",
          regs |-> ProgramStart(r, "R", length, autoend, reload),
          evs |-> <<StartEv("R", length, reload, autoend, restart)>>]

\* A continue that writes NBYTES and RELOAD without waiting for TCR.
master_continue_without_wait(r, length, reload, exp) ==
    IF ~(length < 256 /\ length > 0)
    THEN [res |-> "Panic", regs |-> r, evs |-> <<>>]
    ELSE [res |-> "Ok",
          regs |-> [r EXCEPT !.cr2.nbytes = length, !.cr2.reload = reload,
                             !.isr.tcr = FALSE, !.hw.left = length],
          evs |-> <<ContEv(length, reload)>>]
\* fn master_continue: assert the length, wait for TCR, write NBYTES and
\* RELOAD.
master_continue(r, length, reload, exp) ==
    IF ~(length < 256 /\ length > 0)
    THEN [res |-> "Panic", regs |-> r, evs |-> <<>>]
    ELSE IF ~r.isr.tcr
    THEN [res |-> IF exp THEN "Timeout" ELSE "Spin", regs |-> r, evs |-> <<>>]
    ELSE [res |-> "Ok",
          regs |-> [r EXCEPT !.cr2.nbytes = length, !.cr2.reload = reload,
                             !.isr.tcr = FALSE, !.hw.left = length],
          evs |-> <<ContEv(length, reload)>>]

\* fn flush_txdr
flush_txdr(r) ==
    LET r1 == IF TXIS(r) THEN [r EXCEPT !.isr.txe = FALSE] ELSE r
    IN  IF ~r1.isr.txe THEN [r1 EXCEPT !.isr.txe = TRUE] ELSE r1

\* A loop body that never looks at the deadline.
wait_flag_without_deadline(r, flag, exp) ==
    IF r.isr[flag] THEN [res |-> "Ok", regs |-> r]
    ELSE IF r.isr.berr
    THEN [res |-> "Bus", regs |-> [r EXCEPT !.isr.berr = FALSE]]
    ELSE IF r.isr.arlo
    THEN [res |-> "Arbitration", regs |-> [r EXCEPT !.isr.arlo = FALSE]]
    ELSE IF r.isr.nackf
    THEN [res |-> "Nack", regs |-> flush_txdr([r EXCEPT !.isr.nackf = FALSE])]
    ELSE [res |-> "Spin", regs |-> r]
\* A loop body that tests NACKF before BERR and ARLO.
wait_flag_nack_first(r, flag, exp) ==
    IF r.isr[flag] THEN [res |-> "Ok", regs |-> r]
    ELSE IF r.isr.nackf
    THEN [res |-> "Nack", regs |-> flush_txdr([r EXCEPT !.isr.nackf = FALSE])]
    ELSE IF r.isr.berr
    THEN [res |-> "Bus", regs |-> [r EXCEPT !.isr.berr = FALSE]]
    ELSE IF r.isr.arlo
    THEN [res |-> "Arbitration", regs |-> [r EXCEPT !.isr.arlo = FALSE]]
    ELSE [res |-> IF exp THEN "Timeout" ELSE "Spin", regs |-> r]
\* The loop body shared by wait_txe, wait_rxne and wait_tc: the awaited
\* flag first, then BERR, ARLO, NACKF in that order, then the deadline.
wait_flag(r, flag, exp) ==
    IF r.isr[flag] THEN [res |-> "Ok", regs |-> r]
    ELSE IF r.isr.berr
    THEN [res |-> "Bus", regs |-> [r EXCEPT !.isr.berr = FALSE]]
    ELSE IF r.isr.arlo
    THEN [res |-> "Arbitration", regs |-> [r EXCEPT !.isr.arlo = FALSE]]
    ELSE IF r.isr.nackf
    THEN [res |-> "Nack", regs |-> flush_txdr([r EXCEPT !.isr.nackf = FALSE])]
    ELSE [res |-> IF exp THEN "Timeout" ELSE "Spin", regs |-> r]

wait_txe(r, exp) == wait_flag(r, "txe", exp)
wait_rxne(r, exp) == wait_flag(r, "rxne", exp)
wait_tc(r, exp) == wait_flag(r, "tc", exp)

\* txdr().write(byte) and rxdr().read()
WriteTxdr(r) == [r EXCEPT !.isr.txe = FALSE]
ReadRxdr(r) == [r EXCEPT !.isr.rxne = FALSE]

\* ------------------------------------------------------------ call sites
\* send_stop of write_internal: true from blocking_write and write, false
\* from blocking_write_read and write_read.
SendStop == op \in {"blocking_write", "write"}
\* restart of read_internal / read_dma_internal.
Restart == op \in {"blocking_write_read", "write_read"}

StopIf(c, r) == IF c THEN master_stop(r) ELSE r
StopEvIf(c) == IF c THEN <<StopEv>> ELSE <<>>

\* An internal routine returns res to the public operation.
Return(res) ==
    /\ pc' = "call"
    /\ ret' = res
    /\ leg' = leg + 1

\* A panic (failed assert!) ends the program.
Panic ==
    /\ pc' = "done"
    /\ result' = "Panic"
    /\ UNCHANGED <<ret, leg>>

\* ------------------------------------------------------------------ Init
\* The state after construction, for an operation of ops on buffers of the
\* given lengths; the START of an earlier transaction may still be pending.
InitWith(ops, lens, leglens, veclists) ==
    /\ op \in ops
    /\ wlens \in CASE op \in {"blocking_write", "write"} -> {<<n>> : n \in lens}
                   [] op \in {"blocking_write_read", "write_read"} -> {<<n>> : n \in leglens}
                   [] op \in {"blocking_write_vectored", "write_vectored"} -> veclists
                   [] OTHER -> {<<>>}
    /\ rlen \in CASE op \in {"blocking_read", "read"} -> lens
                  [] op \in {"blocking_write_read", "write_read"} -> leglens
                  [] OTHER -> {0}
    /\ pc = "call"
    /\ leg = 0
    /\ ret = "none"
    /\ result = "none"
    /\ value = NoValue
    /\ idx = 1
    /\ number = 0
    /\ pos = 0
    /\ remaining_len = 0
    /\ regs \in {[cr1 |-> Cr1Reset, cr2 |-> [Cr2Reset EXCEPT !.start = s],
                  isr |-> IsrReset, hw |-> HwReset] : s \in BOOLEAN}
    /\ dma = DmaIdle
    /\ woken = FALSE
    /\ expired = FALSE
    /\ trace = <<>>
    /\ txlog = <<>>
    /\ rxbuf = <<>>

\* --------------------------------------------------------- write_internal
\* I2C start: master_write(address, write.len().min(255), Stop::Software,
\* last_chunk_idx != 0, timeout), with a stop on failure when send_stop.
write_internal_start ==
    /\ pc = "wi_start"
    /\ LET len == wlens[1]
           o == master_write(regs, Min(len, 255), FALSE, last_chunk_idx(len) # 0, expired)
       IN  /\ o.res # "Spin"
           /\ IF o.res = "Ok"
              THEN /\ regs' = o.regs
                   /\ trace' = trace \o o.evs
                   /\ pc' = IF len = 0 THEN "wi_tc" ELSE "wi_byte"
                   /\ UNCHANGED <<ret, leg>>
              ELSE /\ regs' = StopIf(SendStop, o.regs)
                   /\ trace' = trace \o StopEvIf(SendStop)
                   /\ Return(o.res)
    /\ idx' = 1 /\ number' = 0 /\ pos' = 0
    /\ UNCHANGED <<op, value, wlens, rlen, result, remaining_len, dma, woken, expired,
                   txlog, rxbuf>>

\* if number != 0 { master_continue(chunk.len(), number != last_chunk_idx)? }
write_internal_continue ==
    /\ pc = "wi_cont"
    /\ LET len == wlens[1]
           o == master_continue(regs, chunk_len(len, number),
                                number # last_chunk_idx(len), expired)
       IN  /\ o.res # "Spin"
           /\ regs' = o.regs
           /\ trace' = trace \o o.evs
           /\ CASE o.res = "Ok" -> pc' = "wi_byte" /\ UNCHANGED <<ret, leg, result>>
                [] o.res = "Panic" -> Panic
                [] OTHER -> Return(o.res) /\ UNCHANGED result
    /\ UNCHANGED <<op, value, wlens, rlen, idx, number, pos, remaining_len, dma, woken,
                   expired, txlog, rxbuf>>

\* for byte in chunk { wait_txe (stop on failure when send_stop); write TXDR }
write_internal_byte ==
    /\ pc = "wi_byte"
    /\ LET len == wlens[1]
           o == wait_txe(regs, expired)
       IN  /\ o.res # "Spin"
           /\ IF o.res = "Ok"
              THEN /\ regs' = WriteTxdr(o.regs)
                   /\ txlog' = Append(txlog, WByte(1, pos))
                   /\ pos' = pos + 1
                   /\ trace' = trace
                   /\ IF pos + 1 = len
                      THEN pc' = "wi_tc" /\ number' = number
                      ELSE IF pos + 1 = ChunkSize * (number + 1)
                      THEN pc' = "wi_cont" /\ number' = number + 1
                      ELSE pc' = "wi_byte" /\ number' = number
                   /\ UNCHANGED <<ret, leg>>
              ELSE /\ regs' = StopIf(SendStop, o.regs)
                   /\ trace' = trace \o StopEvIf(SendStop)
                   /\ Return(o.res)
                   /\ UNCHANGED <<txlog, pos, number>>
    /\ UNCHANGED <<op, value, wlens, rlen, result, idx, remaining_len, dma, woken,
                   expired, rxbuf>>

\* let result = self.wait_tc(timeout); if send_stop { master_stop() }; result
write_internal_finish ==
    /\ pc = "wi_tc"
    /\ LET o == wait_tc(regs, expired)
       IN  /\ o.res # "Spin"
           /\ regs' = StopIf(SendStop, o.regs)
           /\ trace' = trace \o StopEvIf(SendStop)
           /\ Return(o.res)
    /\ UNCHANGED <<op, value, wlens, rlen, result, idx, number, pos, remaining_len, dma,
                   woken, expired, txlog, rxbuf>>

\* ---------------------------------------------------------- read_internal
\* master_read(address, read.len().min(255), Stop::Automatic,
\*             last_chunk_idx != 0, restart, timeout)?
read_internal_start ==
    /\ pc = "ri_start"
    /\ LET o == master_read(regs, Min(rlen, 255), TRUE, last_chunk_idx(rlen) # 0,
                            Restart, expired)
       IN  /\ o.res # "Spin"
           /\ regs' = o.regs
           /\ trace' = trace \o o.evs
           /\ IF o.res = "Ok"
              THEN IF rlen = 0
                   THEN Return("Ok")
                   ELSE pc' = "ri_byte" /\ UNCHANGED <<ret, leg>>
              ELSE Return(o.res)
    /\ number' = 0 /\ pos' = 0
    /\ UNCHANGED <<op, value, wlens, rlen, result, idx, remaining_len, dma, woken,
                   expired, txlog, rxbuf>>

\* if number != 0 { master_continue(chunk.len(), number != last_chunk_idx)? }
read_internal_continue ==
    /\ pc = "ri_cont"
    /\ LET o == master_continue(regs, chunk_len(rlen, number),
                                number # last_chunk_idx(rlen), expired)
       IN  /\ o.res # "Spin"
           /\ regs' = o.regs
           /\ trace' = trace \o o.evs
           /\ CASE o.res = "Ok" -> pc' = "ri_byte" /\ UNCHANGED <<ret, leg, result>>
                [] o.res = "Panic" -> Panic
                [] OTHER -> Return(o.res) /\ UNCHANGED result
    /\ UNCHANGED <<op, value, wlens, rlen, idx, number, pos, remaining_len, dma, woken,
                   expired, txlog, rxbuf>>

\* for byte in chunk { wait_rxne?; *byte = rxdr } ... Ok(())
read_internal_byte ==
    /\ pc = "ri_byte"
    /\ LET o == wait_rxne(regs, expired)
       IN  /\ o.res # "Spin"
           /\ IF o.res = "Ok"
              THEN /\ regs' = ReadRxdr(o.regs)
                   /\ rxbuf' = Append(rxbuf, regs.hw.rxdr)
                   /\ pos' = pos + 1
                   /\ IF pos + 1 = rlen
                      THEN Return("Ok") /\ number' = number
                      ELSE IF pos + 1 = ChunkSize * (number + 1)
                      THEN pc' = "ri_cont" /\ number' = number + 1
                                           /\ UNCHANGED <<ret, leg>>
                      ELSE pc' = "ri_byte" /\ number' = number
                                           /\ UNCHANGED <<ret, leg>>
              ELSE /\ regs' = o.regs
                   /\ Return(o.res)
                   /\ UNCHANGED <<rxbuf, pos, number>>
    /\ UNCHANGED <<op, value, wlens, rlen, result, idx, remaining_len, dma, woken,
                   expired, trace, txlog>>

\* ------------------------------------------------ blocking_write_vectored
last_slice_index == Len(wlens)

\* The slice after the one just completed, or the final wait_tc.
NextSlice ==
    IF idx < last_slice_index
    THEN pc' = "wv_slice" /\ idx' = idx + 1
    ELSE pc' = "wv_tc" /\ idx' = idx

\* master_write(address, first_length.min(255), Stop::Software,
\*   (first_length > 255) || (last_slice_index != 0), timeout), stop on failure
blocking_write_vectored_start ==
    /\ pc = "wv_start"
    /\ LET first_length == wlens[1]
           o == master_write(regs, Min(first_length, 255), FALSE,
                             (first_length > 255) \/ (last_slice_index # 1), expired)
       IN  /\ o.res # "Spin"
           /\ IF o.res = "Ok"
              THEN /\ regs' = o.regs
                   /\ trace' = trace \o o.evs
                   /\ IF first_length = 0
                      THEN IF 1 < last_slice_index
                           THEN pc' = "wv_slice" /\ idx' = 2
                           ELSE pc' = "wv_tc" /\ idx' = 1
                      ELSE pc' = "wv_byte" /\ idx' = 1
                   /\ UNCHANGED <<ret, leg>>
              ELSE /\ regs' = master_stop(o.regs)
                   /\ trace' = Append(trace, StopEv)
                   /\ Return(o.res)
                   /\ idx' = 1
    /\ number' = 0 /\ pos' = 0
    /\ UNCHANGED <<op, value, wlens, rlen, result, remaining_len, dma, woken, expired,
                   txlog, rxbuf>>

\* if idx != 0 { master_continue(slice_len.min(255),
\*   (idx != last_slice_index) || (slice_len > 255), timeout), stop on failure }
blocking_write_vectored_slice ==
    /\ pc = "wv_slice"
    /\ LET slice_len == wlens[idx]
           o == master_continue(regs, Min(slice_len, 255),
                                (idx # last_slice_index) \/ (slice_len > 255), expired)
       IN  /\ o.res # "Spin"
           /\ CASE o.res = "Ok" ->
                     /\ regs' = o.regs
                     /\ trace' = trace \o o.evs
                     /\ pc' = "wv_byte"
                     /\ UNCHANGED <<ret, leg, result>>
                [] o.res = "Panic" ->
                     /\ Panic
                     /\ UNCHANGED <<regs, trace>>
                [] OTHER ->
                     /\ regs' = master_stop(o.regs)
                     /\ trace' = Append(trace, StopEv)
                     /\ Return(o.res)
                     /\ UNCHANGED result
    /\ number' = 0 /\ pos' = 0
    /\ UNCHANGED <<op, value, wlens, rlen, idx, remaining_len, dma, woken, expired,
                   txlog, rxbuf>>

\* if number != 0 { master_continue(chunk.len(),
\*   (number != last_chunk_idx) || (idx != last_slice_index), timeout), stop on failure }
blocking_write_vectored_chunk ==
    /\ pc = "wv_chunk"
    /\ LET slice_len == wlens[idx]
           o == master_continue(regs, chunk_len(slice_len, number),
                                (number # last_chunk_idx(slice_len))
                                    \/ (idx # last_slice_index), expired)
       IN  /\ o.res # "Spin"
           /\ CASE o.res = "Ok" ->
                     /\ regs' = o.regs
                     /\ trace' = trace \o o.evs
                     /\ pc' = "wv_byte"
                     /\ UNCHANGED <<ret, leg, result>>
                [] o.res = "Panic" ->
                     /\ Panic
                     /\ UNCHANGED <<regs, trace>>
                [] OTHER ->
                     /\ regs' = master_stop(o.regs)
                     /\ trace' = Append(trace, StopEv)
                     /\ Return(o.res)
                     /\ UNCHANGED result
    /\ UNCHANGED <<op, value, wlens, rlen, idx, number, pos, remaining_len, dma, woken,
                   expired, txlog, rxbuf>>

\* for byte in chunk { wait_txe, stop on failure; write TXDR }
blocking_write_vectored_byte ==
    /\ pc = "wv_byte"
    /\ LET slice_len == wlens[idx]
           o == wait_txe(regs, expired)
       IN  /\ o.res # "Spin"
           /\ IF o.res = "Ok"
              THEN /\ regs' = WriteTxdr(o.regs)
                   /\ txlog' = Append(txlog, WByte(idx, pos))
                   /\ trace' = trace
                   /\ IF pos + 1 = slice_len
                      THEN NextSlice /\ number' = number /\ pos' = pos + 1
                      ELSE IF pos + 1 = ChunkSize * (number + 1)
                      THEN /\ pc' = "wv_chunk" /\ number' = number + 1
                           /\ pos' = pos + 1 /\ idx' = idx
                      ELSE /\ pc' = "wv_byte" /\ number' = number
                           /\ pos' = pos + 1 /\ idx' = idx
                   /\ UNCHANGED <<ret, leg>>
              ELSE /\ regs' = master_stop(o.regs)
                   /\ trace' = Append(trace, StopEv)
                   /\ Return(o.res)
                   /\ UNCHANGED <<txlog, pos, number, idx>>
    /\ UNCHANGED <<op, value, wlens, rlen, result, remaining_len, dma, woken, expired,
                   rxbuf>>

\* let result = self.wait_tc(timeout); self.master_stop(); result
blocking_write_vectored_finish ==
    /\ pc = "wv_tc"
    /\ LET o == wait_tc(regs, expired)
       IN  /\ o.res # "Spin"
           /\ regs' = master_stop(o.regs)
           /\ trace' = Append(trace, StopEv)
           /\ Return(o.res)
    /\ UNCHANGED <<op, value, wlens, rlen, result, idx, number, pos, remaining_len, dma,
                   woken, expired, txlog, rxbuf>>

\* ------------------------------------------------------- blocking public API
\* The public operation returns res.
Finish(res) ==
    /\ pc' = "done"
    /\ result' = res

\* pub fn blocking_read: read_internal(address, read, false, timeout)
blocking_read ==
    /\ pc = "call" /\ op = "blocking_read"
    /\ IF leg = 0 THEN pc' = "ri_start" /\ UNCHANGED result ELSE Finish(ret)
    /\ UNCHANGED <<op, value, wlens, rlen, leg, ret, idx, number, pos, remaining_len,
                   regs, dma, woken, expired, trace, txlog, rxbuf>>

\* pub fn blocking_write: write_internal(address, write, true, timeout)
blocking_write ==
    /\ pc = "call" /\ op = "blocking_write"
    /\ IF leg = 0 THEN pc' = "wi_start" /\ UNCHANGED result ELSE Finish(ret)
    /\ UNCHANGED <<op, value, wlens, rlen, leg, ret, idx, number, pos, remaining_len,
                   regs, dma, woken, expired, trace, txlog, rxbuf>>

\* pub fn blocking_write_read: write_internal(.., false, timeout)?;
\* read_internal(.., true, timeout)
blocking_write_read ==
    /\ pc = "call" /\ op = "blocking_write_read"
    /\ CASE leg = 0 -> pc' = "wi_start" /\ UNCHANGED result
         [] leg = 1 /\ ret = "Ok" -> pc' = "ri_start" /\ UNCHANGED result
         [] OTHER -> Finish(ret)
    /\ UNCHANGED <<op, value, wlens, rlen, leg, ret, idx, number, pos, remaining_len,
                   regs, dma, woken, expired, trace, txlog, rxbuf>>

ZeroLengthTransfer_after_stop ==
    /\ Finish("ZeroLengthTransfer")
    /\ regs' = master_stop(regs)
    /\ UNCHANGED <<dma, trace>>
\* if write.is_empty() { return Err(Error::ZeroLengthTransfer); }
ZeroLengthTransfer ==
    /\ Finish("ZeroLengthTransfer")
    /\ UNCHANGED <<regs, dma, trace>>

\* pub fn blocking_write_vectored: an empty list is rejected before any
\* register is touched.
blocking_write_vectored ==
    /\ pc = "call" /\ op = "blocking_write_vectored"
    /\ CASE leg = 0 /\ wlens = <<>> -> ZeroLengthTransfer
         [] leg = 0 /\ wlens # <<>> ->
                 pc' = "wv_start" /\ UNCHANGED <<result, regs, dma, trace>>
         [] OTHER -> Finish(ret) /\ UNCHANGED <<regs, dma, trace>>
    /\ UNCHANGED <<op, value, wlens, rlen, leg, ret, idx, number, pos, remaining_len,
                   woken, expired, txlog, rxbuf>>

\* ------------------------------------------------------ write_dma_internal
\* first_slice / last_slice as passed by write (true, true), write_read
\* (true, true) and write_vectored (first, is_last).
first_slice == idx = 1
last_slice_every_buffer == TRUE
last_slice == IF op = "write_vectored" THEN idx = Len(wlens) ELSE TRUE

\* The OnDrop closure of write_dma_internal.
write_on_drop(r) ==
    [r EXCEPT !.cr1.txdmaen = IF last_slice THEN FALSE ELSE @,
              !.cr1.tcie = FALSE]

\* A cleanup that leaves the receive DMA request enabled.
read_on_drop_keeps_rxdmaen(r) == [r EXCEPT !.cr1.tcie = FALSE]
\* The OnDrop closure of read_dma_internal.
read_on_drop(r) ==
    [r EXCEPT !.cr1.rxdmaen = FALSE, !.cr1.tcie = FALSE]

\* The routine's future is left (an error through `?`, or the future is
\* dropped): on_drop runs and the DMA transfer is dropped.
write_dma_exit(r, res) ==
    /\ regs' = write_on_drop(r)
    /\ dma' = DmaIdle
    /\ Return(res)

read_dma_exit(r, res) ==
    /\ regs' = read_on_drop(r)
    /\ dma' = DmaIdle
    /\ Return(res)

\* The poll_fn closure returns Poll::Pending.
Pending(next) ==
    /\ pc' = next
    /\ UNCHANGED <<ret, leg, result>>

\* Enable TXDMAEN (and TCIE on the first slice), start the DMA write of the
\* whole slice, remaining_len = total_len, arm on_drop.
write_dma_internal_setup ==
    /\ pc = "wd_enter"
    /\ regs' = [regs EXCEPT !.cr1.txdmaen = TRUE,
                            !.cr1.tcie = IF first_slice THEN TRUE ELSE @]
    /\ dma' = [active |-> TRUE, dir |-> "tx", remaining |-> wlens[idx],
               total |-> wlens[idx]]
    /\ remaining_len' = wlens[idx]
    /\ pc' = "wd_run"
    /\ woken' = FALSE
    /\ UNCHANGED <<op, value, wlens, rlen, leg, ret, result, idx, number, pos, expired,
                   trace, txlog, rxbuf>>

NStarts == Cardinality({i \in DOMAIN trace : trace[i].ev = "start"})

\* The poll_fn closure, from its top to the branch it takes.
write_dma_internal_poll ==
    /\ pc = "wd_run" \/ (pc = "wd_poll" /\ woken)
    /\ NStarts < MaxStarts
    /\ woken' = FALSE
    /\ LET total_len == wlens[idx]
       IN  IF remaining_len = total_len
           THEN pc' = IF first_slice THEN "wd_start" ELSE "wd_first_cont"
           ELSE IF ~(regs.isr.tcr \/ regs.isr.tc)
           THEN pc' = "wd_poll"
           ELSE IF remaining_len = 0
           THEN pc' = "wd_dma"
           ELSE pc' = "wd_cont"
    /\ UNCHANGED <<op, value, wlens, rlen, leg, ret, result, idx, number, pos,
                   remaining_len, regs, dma, expired, trace, txlog, rxbuf>>

\* master_write(address, total_len.min(255), Stop::Software,
\*   (total_len > 255) || !last_slice, timeout)?; remaining_len -= 255; Pending
write_dma_internal_start ==
    /\ pc = "wd_start"
    /\ LET total_len == wlens[idx]
           o == master_write(regs, Min(total_len, 255), FALSE,
                             (total_len > 255) \/ ~last_slice, expired)
       IN  /\ o.res # "Spin"
           /\ trace' = trace \o o.evs
           /\ IF o.res = "Ok"
              THEN /\ regs' = o.regs
                   /\ remaining_len' = saturating_sub(remaining_len, 255)
                   /\ Pending("wd_poll")
                   /\ dma' = dma
              ELSE /\ write_dma_exit(o.regs, o.res)
                   /\ UNCHANGED <<remaining_len, result>>
    /\ UNCHANGED <<op, value, wlens, rlen, idx, number, pos, woken, expired, txlog, rxbuf>>

\* master_continue(total_len.min(255), (total_len > 255) || !last_slice,
\*   timeout)?; set_tcie(true); remaining_len -= 255; Pending
write_dma_internal_first_continue ==
    /\ pc = "wd_first_cont"
    /\ LET total_len == wlens[idx]
           o == master_continue(regs, Min(total_len, 255),
                                (total_len > 255) \/ ~last_slice, expired)
       IN  /\ o.res # "Spin"
           /\ trace' = trace \o o.evs
           /\ CASE o.res = "Ok" ->
                     /\ regs' = [o.regs EXCEPT !.cr1.tcie = TRUE]
                     /\ remaining_len' = saturating_sub(remaining_len, 255)
                     /\ Pending("wd_poll")
                     /\ dma' = dma
                [] o.res = "Panic" ->
                     /\ Panic
                     /\ UNCHANGED <<regs, dma, remaining_len>>
                [] OTHER ->
                     /\ write_dma_exit(o.regs, o.res)
                     /\ UNCHANGED <<remaining_len, result>>
    /\ UNCHANGED <<op, value, wlens, rlen, idx, number, pos, woken, expired, txlog, rxbuf>>

\* let last_piece = (remaining_len <= 255) && last_slice;
\* master_continue(remaining_len.min(255), !last_piece, timeout) or
\* Ready(Err); set_tcie(true); remaining_len -= 255; Pending
write_dma_internal_continue ==
    /\ pc = "wd_cont"
    /\ LET last_piece == (remaining_len <= 255) /\ last_slice
           o == master_continue(regs, Min(remaining_len, 255), ~last_piece, expired)
       IN  /\ o.res # "Spin"
           /\ trace' = trace \o o.evs
           /\ CASE o.res = "Ok" ->
                     /\ regs' = [o.regs EXCEPT !.cr1.tcie = TRUE]
                     /\ remaining_len' = saturating_sub(remaining_len, 255)
                     /\ Pending("wd_poll")
                     /\ dma' = dma
                [] o.res = "Panic" ->
                     /\ Panic
                     /\ UNCHANGED <<regs, dma, remaining_len>>
                [] OTHER ->
                     /\ write_dma_exit(o.regs, o.res)
                     /\ UNCHANGED <<remaining_len, result>>
    /\ UNCHANGED <<op, value, wlens, rlen, idx, number, pos, woken, expired, txlog, rxbuf>>

\* dma_transfer.await; a slice that is not the last then drops on_drop and
\* returns Ok.
write_dma_internal_dma_await ==
    /\ pc = "wd_dma"
    /\ DmaDone(dma)
    /\ IF last_slice
       THEN /\ pc' = "wd_tc"
            /\ UNCHANGED <<regs, dma, ret, leg>>
       ELSE write_dma_exit(regs, "Ok")
    /\ UNCHANGED <<op, value, wlens, rlen, result, idx, number, pos, remaining_len,
                   woken, expired, trace, txlog, rxbuf>>

\* if last_slice { self.wait_tc(timeout)?; self.master_stop(); }
\* drop(on_drop); Ok(())
write_dma_internal_finish ==
    /\ pc = "wd_tc"
    /\ LET o == wait_tc(regs, expired)
       IN  /\ o.res # "Spin"
           /\ IF o.res = "Ok"
              THEN /\ write_dma_exit(master_stop(o.regs), "Ok")
                   /\ trace' = Append(trace, StopEv)
              ELSE /\ write_dma_exit(o.regs, o.res)
                   /\ trace' = trace
    /\ UNCHANGED <<op, value, wlens, rlen, result, idx, number, pos, remaining_len,
                   woken, expired, txlog, rxbuf>>

\* ------------------------------------------------------- read_dma_internal
\* Enable RXDMAEN and TCIE, start the DMA read into the buffer,
\* remaining_len = total_len, arm on_drop.
read_dma_internal_setup ==
    /\ pc = "rd_enter"
    /\ regs' = [regs EXCEPT !.cr1.rxdmaen = TRUE, !.cr1.tcie = TRUE]
    /\ dma' = [active |-> TRUE, dir |-> "rx", remaining |-> rlen, total |-> rlen]
    /\ remaining_len' = rlen
    /\ pc' = "rd_run"
    /\ woken' = FALSE
    /\ UNCHANGED <<op, value, wlens, rlen, leg, ret, result, idx, number, pos, expired,
                   trace, txlog, rxbuf>>

\* The poll_fn closure, from its top to the branch it takes.
read_dma_internal_poll ==
    /\ pc = "rd_run" \/ (pc = "rd_poll" /\ woken)
    /\ woken' = FALSE
    /\ IF remaining_len = rlen
       THEN pc' = "rd_start"
       ELSE IF ~(regs.isr.tcr \/ regs.isr.tc)
       THEN pc' = "rd_poll"
       ELSE IF remaining_len = 0
       THEN pc' = "rd_dma"
       ELSE pc' = "rd_cont"
    /\ UNCHANGED <<op, value, wlens, rlen, leg, ret, result, idx, number, pos,
                   remaining_len, regs, dma, expired, trace, txlog, rxbuf>>

\* master_read(address, total_len.min(255), Stop::Software, total_len > 255,
\*   restart, timeout)?; remaining_len -= 255; Pending
read_dma_internal_start ==
    /\ pc = "rd_start"
    /\ LET o == master_read(regs, Min(rlen, 255), FALSE, rlen > 255, Restart, expired)
       IN  /\ o.res # "Spin"
           /\ trace' = trace \o o.evs
           /\ IF o.res = "Ok"
              THEN /\ regs' = o.regs
                   /\ remaining_len' = saturating_sub(remaining_len, 255)
                   /\ Pending("rd_poll")
                   /\ dma' = dma
              ELSE /\ read_dma_exit(o.regs, o.res)
                   /\ UNCHANGED <<remaining_len, result>>
    /\ UNCHANGED <<op, value, wlens, rlen, idx, number, pos, woken, expired, txlog, rxbuf>>

\* let last_piece = remaining_len <= 255;
\* master_continue(remaining_len.min(255), !last_piece, timeout) or
\* Ready(Err); set_tcie(true); remaining_len -= 255; Pending
read_dma_internal_continue ==
    /\ pc = "rd_cont"
    /\ LET last_piece == remaining_len <= 255
           o == master_continue(regs, Min(remaining_len, 255), ~last_piece, expired)
       IN  /\ o.res # "Spin"
           /\ trace' = trace \o o.evs
           /\ CASE o.res = "Ok" ->
                     /\ regs' = [o.regs EXCEPT !.cr1.tcie = TRUE]
                     /\ remaining_len' = saturating_sub(remaining_len, 255)
                     /\ Pending("rd_poll")
                     /\ dma' = dma
                [] o.res = "Panic" ->
                     /\ Panic
                     /\ UNCHANGED <<regs, dma, remaining_len>>
                [] OTHER ->
                     /\ read_dma_exit(o.regs, o.res)
                     /\ UNCHANGED <<remaining_len, result>>
    /\ UNCHANGED <<op, value, wlens, rlen, idx, number, pos, woken, expired, txlog, rxbuf>>

\* dma_transfer.await
read_dma_internal_dma_await ==
    /\ pc = "rd_dma"
    /\ DmaDone(dma)
    /\ pc' = "rd_tc"
    /\ UNCHANGED <<op, value, wlens, rlen, leg, ret, result, idx, number, pos,
                   remaining_len, regs, dma, woken, expired, trace, txlog, rxbuf>>

\* self.wait_tc(timeout)?; self.master_stop(); drop(on_drop); Ok(())
read_dma_internal_finish ==
    /\ pc = "rd_tc"
    /\ LET o == wait_tc(regs, expired)
       IN  /\ o.res # "Spin"
           /\ IF o.res = "Ok"
              THEN /\ read_dma_exit(master_stop(o.regs), "Ok")
                   /\ trace' = Append(trace, StopEv)
              ELSE /\ read_dma_exit(o.regs, o.res)
                   /\ trace' = trace
    /\ UNCHANGED <<op, value, wlens, rlen, result, idx, number, pos, remaining_len,
                   woken, expired, txlog, rxbuf>>

\* ----------------------------------------------------------- async public API
\* pub async fn write: an empty buffer goes through write_internal, any
\* other through timeout.with(write_dma_internal(.., true, true, ..)).
write ==
    /\ pc = "call" /\ op = "write"
    /\ CASE leg = 0 /\ wlens[1] = 0 -> pc' = "wi_start" /\ UNCHANGED result
         [] leg = 0 /\ wlens[1] # 0 -> pc' = "wd_enter" /\ UNCHANGED result
         [] OTHER -> Finish(ret)
    /\ UNCHANGED <<op, value, wlens, rlen, leg, ret, idx, number, pos, remaining_len,
                   regs, dma, woken, expired, trace, txlog, rxbuf>>

\* pub async fn write_vectored: Err(ZeroLengthTransfer) for an empty list,
\* else timeout.with(write_dma_internal(c, first, is_last)).await? per buffer.
write_vectored ==
    /\ pc = "call" /\ op = "write_vectored"
    /\ CASE leg = 0 /\ wlens = <<>> ->
                 ZeroLengthTransfer /\ idx' = idx
         [] leg > 0 /\ ret # "Ok" ->
                 Finish(ret) /\ idx' = idx /\ UNCHANGED <<regs, dma, trace>>
         [] leg < Len(wlens) /\ (leg = 0 \/ ret = "Ok") ->
                 /\ pc' = "wd_enter" /\ idx' = leg + 1
                 /\ UNCHANGED <<result, regs, dma, trace>>
         [] OTHER ->
                 Finish("Ok") /\ idx' = idx /\ UNCHANGED <<regs, dma, trace>>
    /\ UNCHANGED <<op, value, wlens, rlen, leg, ret, number, pos, remaining_len,
                   woken, expired, txlog, rxbuf>>

\* pub async fn read: an empty buffer goes through read_internal, any other
\* through timeout.with(read_dma_internal(.., false, ..)).
read ==
    /\ pc = "call" /\ op = "read"
    /\ CASE leg = 0 /\ rlen = 0 -> pc' = "ri_start" /\ UNCHANGED result
         [] leg = 0 /\ rlen # 0 -> pc' = "rd_enter" /\ UNCHANGED result
         [] OTHER -> Finish(ret)
    /\ UNCHANGED <<op, value, wlens, rlen, leg, ret, idx, number, pos, remaining_len,
                   regs, dma, woken, expired, trace, txlog, rxbuf>>

\* pub async fn write_read: the write leg (write_internal with send_stop =
\* false, or write_dma_internal(.., true, true, ..)), then the read leg
\* (read_internal or read_dma_internal with restart = true).
write_read ==
    /\ pc = "call" /\ op = "write_read"
    /\ CASE leg = 0 /\ wlens[1] = 0 -> pc' = "wi_start" /\ UNCHANGED result
         [] leg = 0 /\ wlens[1] # 0 -> pc' = "wd_enter" /\ UNCHANGED result
         [] leg = 1 /\ ret = "Ok" /\ rlen = 0 -> pc' = "ri_start" /\ UNCHANGED result
         [] leg = 1 /\ ret = "Ok" /\ rlen # 0 -> pc' = "rd_enter" /\ UNCHANGED result
         [] OTHER -> Finish(ret)
    /\ UNCHANGED <<op, value, wlens, rlen, leg, ret, idx, number, pos, remaining_len,
                   regs, dma, woken, expired, trace, txlog, rxbuf>>

\* ------------------------------------------------------------------ slave
SlaveOps == {"listen", "respond_to_receive", "respond_to_send"}

RECURSIVE BitOr(_, _)
\* The | of two unsigned integers.
BitOr(a, b) ==
    IF a = 0 THEN b
    ELSE IF b = 0 THEN a
    ELSE (IF a % 2 = 1 \/ b % 2 = 1 THEN 1 ELSE 0) + 2 * BitOr(a \div 2, b \div 2)

SevenBit(matched) == [kind |-> "SevenBit", n |-> matched]
\* OwnAddress::TenBit((matched as u16) << 6 | buffer[0] as u16)
TenBit(matched, byte) ==
    [kind |-> "TenBit", n |-> BitOr((matched * 64) % 65536, byte)]

\* determine_matched_address: matched >> 3 == 0b11110
IsTenBitHeader(matched) == matched \div 8 = 30

\* A command kind that ignores the direction of the match.
CommandKind_always_receive(r) == "SlaveReceive"
CommandKind(r) == IF r.isr.dir = "W" THEN "SlaveReceive" ELSE "SlaveSend"

\* pub async fn listen: enable the address-match interrupt.
listen ==
    /\ pc = "call" /\ op = "listen"
    /\ regs' = [regs EXCEPT !.cr1.addrie = TRUE]
    /\ pc' = "ls_run"
    /\ UNCHANGED <<op, value, wlens, rlen, leg, ret, result, idx, number, pos,
                   remaining_len, dma, woken, expired, trace, txlog, rxbuf>>

\* The poll_fn closure of listen.  A write match clears ADDR, a read match
\* leaves it set; a 10-bit header starts a blocking read of one byte under a
\* new deadline.
listen_poll ==
    /\ pc = "ls_run" \/ (pc = "ls_poll" /\ woken)
    /\ woken' = FALSE
    /\ IF ~regs.isr.addr
       THEN /\ pc' = "ls_poll"
            /\ UNCHANGED <<regs, result, value, expired>>
       ELSE /\ regs' = IF regs.isr.dir = "W"
                       THEN [regs EXCEPT !.isr.addr = FALSE]
                       ELSE regs
            /\ IF IsTenBitHeader(regs.isr.addcode)
               THEN /\ pc' = "ls_rx"
                    /\ expired' = FALSE
                    /\ UNCHANGED <<result, value>>
               ELSE /\ pc' = "done"
                    /\ result' = CommandKind(regs)
                    /\ value' = SevenBit(regs.isr.addcode)
                    /\ UNCHANGED expired
    /\ UNCHANGED <<op, wlens, rlen, leg, ret, idx, number, pos, remaining_len,
                   dma, trace, txlog, rxbuf>>

\* fn blocking_read of the slave, on the one-byte buffer of
\* determine_matched_address: wait for RXNE or the deadline.
slave_blocking_read ==
    /\ pc = "ls_rx"
    /\ regs.isr.rxne \/ expired
    /\ pc' = "done"
    /\ IF regs.isr.rxne
       THEN /\ regs' = ReadRxdr(regs)
            /\ result' = CommandKind(regs)
            /\ value' = TenBit(regs.isr.addcode, regs.hw.rxdr)
       ELSE /\ result' = "Timeout"
            /\ UNCHANGED <<regs, value>>
    /\ UNCHANGED <<op, wlens, rlen, leg, ret, idx, number, pos, remaining_len,
                   dma, woken, expired, trace, txlog, rxbuf>>

\* The OnDrop closure of the slave's read_dma_internal.
slave_read_on_drop(r) ==
    [r EXCEPT !.cr1.rxdmaen = FALSE, !.cr1.stopie = FALSE]

\* A cleanup that leaves the stop interrupt enabled.
slave_write_on_drop_keeps_stopie(r) ==
    [r EXCEPT !.cr1.txdmaen = FALSE, !.cr1.txie = FALSE]
\* The OnDrop closure of the slave's write_dma_internal.
slave_write_on_drop(r) ==
    [r EXCEPT !.cr1.txdmaen = FALSE, !.cr1.txie = FALSE, !.cr1.stopie = FALSE]

\* Slave read_dma_internal up to the poll_fn: RXDMAEN and STOPIE on, the DMA
\* read of the buffer started, ADDR cleared.
slave_read_dma_internal_setup ==
    /\ pc = "sr_enter"
    /\ regs' = [regs EXCEPT !.cr1.rxdmaen = TRUE, !.cr1.stopie = TRUE,
                            !.isr.addr = FALSE]
    /\ dma' = [active |-> TRUE, dir |-> "rx", remaining |-> rlen, total |-> rlen]
    /\ remaining_len' = rlen
    /\ pc' = "sr_run"
    /\ UNCHANGED <<op, value, wlens, rlen, leg, ret, result, idx, number, pos,
                   woken, expired, trace, txlog, rxbuf>>

total_received_is_remaining(d) == d.remaining
\* total_len - dma_transfer.get_remaining_transfers() as usize
total_received(d) == d.total - d.remaining

\* The poll_fn closure of the slave's read_dma_internal: on STOPF the flag is
\* cleared, the received count is taken from the DMA and the DMA is stopped.
slave_read_dma_internal_poll ==
    /\ pc = "sr_run" \/ (pc = "sr_poll" /\ woken)
    /\ woken' = FALSE
    /\ IF regs.isr.stopf
       THEN /\ regs' = [regs EXCEPT !.isr.stopf = FALSE]
            /\ value' = Bytes(total_received(dma))
            /\ dma' = [dma EXCEPT !.active = FALSE]
            /\ ret' = "Ok"
            /\ pc' = "sr_dma"
       ELSE /\ pc' = "sr_poll"
            /\ UNCHANGED <<regs, value, dma, ret>>
    /\ UNCHANGED <<op, wlens, rlen, leg, result, idx, number, pos,
                   remaining_len, expired, trace, txlog, rxbuf>>

\* dma_transfer.await; drop(on_drop); Ok(total_received)
slave_read_dma_internal_finish ==
    /\ pc = "sr_dma"
    /\ DmaDone(dma)
    /\ regs' = slave_read_on_drop(regs)
    /\ dma' = DmaIdle
    /\ Return(ret)
    /\ UNCHANGED <<op, value, wlens, rlen, result, idx, number, pos,
                   remaining_len, woken, expired, trace, txlog, rxbuf>>

\* pub async fn respond_to_receive: the reception under one deadline (an
\* error is returned), then ADDRIE on and the wait for the next address
\* match under a new deadline; any outcome of that wait other than
\* SendRequested gives Done(size).
respond_to_receive ==
    /\ pc = "call" /\ op = "respond_to_receive"
    /\ CASE leg = 0 ->
            /\ pc' = "sr_enter"
            /\ expired' = FALSE
            /\ UNCHANGED <<regs, result>>
         [] leg = 1 /\ ret = "Ok" ->
            /\ regs' = [regs EXCEPT !.cr1.addrie = TRUE]
            /\ expired' = FALSE
            /\ pc' = "rr_run"
            /\ UNCHANGED result
         [] leg = 1 /\ ret # "Ok" ->
            /\ Finish(ret)
            /\ UNCHANGED <<regs, expired>>
         [] OTHER ->
            /\ Finish(IF ret = "SendRequested" THEN "SendRequested" ELSE "Done")
            /\ UNCHANGED <<regs, expired>>
    /\ UNCHANGED <<op, value, wlens, rlen, leg, ret, idx, number, pos,
                   remaining_len, dma, woken, trace, txlog, rxbuf>>

\* The poll_fn closure of respond_to_receive's second wait.
respond_to_receive_poll ==
    /\ pc = "rr_run" \/ (pc = "rr_poll" /\ woken)
    /\ woken' = FALSE
    /\ IF regs.isr.addr
       THEN Return(IF regs.isr.dir = "R" THEN "SendRequested" ELSE "Done")
       ELSE pc' = "rr_poll" /\ UNCHANGED <<ret, leg>>
    /\ UNCHANGED <<op, value, wlens, rlen, result, idx, number, pos,
                   remaining_len, regs, dma, expired, trace, txlog, rxbuf>>

\* Slave write_dma_internal up to the poll_fn: NBYTES = total_len as u8,
\* TXDMAEN, TXIE and STOPIE on, the DMA write started, ADDR cleared, NACK off.
slave_write_dma_internal_setup ==
    /\ pc = "sw_enter"
    /\ regs' = [regs EXCEPT !.cr2.nbytes = wlens[1] % 256,
                            !.cr2.nack = FALSE,
                            !.cr1.txdmaen = TRUE, !.cr1.txie = TRUE,
                            !.cr1.stopie = TRUE,
                            !.isr.addr = FALSE]
    /\ dma' = [active |-> TRUE, dir |-> "tx", remaining |-> wlens[1],
               total |-> wlens[1]]
    /\ remaining_len' = wlens[1]
    /\ pc' = "sw_run"
    /\ UNCHANGED <<op, value, wlens, rlen, leg, ret, result, idx, number, pos,
                   woken, expired, trace, txlog, rxbuf>>

\* The poll_fn closure of the slave's write_dma_internal.
slave_write_dma_internal_poll ==
    /\ pc = "sw_run" \/ (pc = "sw_poll" /\ woken)
    /\ woken' = FALSE
    /\ IF regs.isr.stopf
       THEN /\ regs' = [regs EXCEPT !.isr.stopf = FALSE]
            /\ IF dma.remaining > 0
               THEN /\ dma' = [dma EXCEPT !.active = FALSE]
                    /\ ret' = "LeftoverBytes"
                    /\ value' = Bytes(dma.remaining)
               ELSE /\ ret' = "Done"
                    /\ UNCHANGED <<dma, value>>
            /\ pc' = "sw_dma"
       ELSE IF DmaDone(dma)
       THEN /\ regs' = [regs EXCEPT !.cr2.nack = TRUE]
            /\ ret' = "MoreBytesRequested"
            /\ pc' = "sw_dma"
            /\ UNCHANGED <<dma, value>>
       ELSE /\ pc' = "sw_poll"
            /\ UNCHANGED <<regs, dma, ret, value>>
    /\ UNCHANGED <<op, wlens, rlen, leg, result, idx, number, pos,
                   remaining_len, expired, trace, txlog, rxbuf>>

\* dma_transfer.await; drop(on_drop); Ok(size)
slave_write_dma_internal_finish ==
    /\ pc = "sw_dma"
    /\ DmaDone(dma)
    /\ regs' = slave_write_on_drop(regs)
    /\ dma' = DmaIdle
    /\ Return(ret)
    /\ UNCHANGED <<op, value, wlens, rlen, result, idx, number, pos,
                   remaining_len, woken, expired, trace, txlog, rxbuf>>

\* pub async fn respond_to_send
respond_to_send ==
    /\ pc = "call" /\ op = "respond_to_send"
    /\ IF leg = 0
       THEN pc' = "sw_enter" /\ expired' = FALSE /\ UNCHANGED result
       ELSE Finish(ret) /\ UNCHANGED expired
    /\ UNCHANGED <<op, value, wlens, rlen, leg, ret, idx, number, pos,
                   remaining_len, regs, dma, woken, trace, txlog, rxbuf>>

\* -------------------------------------------------- deadline and dropping
\* The points at which a routine's future is suspended.
WriteSuspended == pc \in {"wd_poll", "wd_dma"}
ReadSuspended == pc \in {"rd_poll", "rd_dma"}
SlaveReadSuspended == pc \in {"sr_poll", "sr_dma"}
SlaveWriteSuspended == pc \in {"sw_poll", "sw_dma"}
Suspended ==
    \/ WriteSuspended \/ ReadSuspended
    \/ SlaveReadSuspended \/ SlaveWriteSuspended
    \/ pc \in {"rr_poll", "ls_poll"}

\* The scope-exit cleanup of the future suspended at pc.
on_drop(r) ==
    CASE WriteSuspended -> write_on_drop(r)
      [] ReadSuspended -> read_on_drop(r)
      [] SlaveReadSuspended -> slave_read_on_drop(r)
      [] SlaveWriteSuspended -> slave_write_on_drop(r)
      [] OTHER -> r

\* Timeout::with: once the deadline has passed the wrapped future is
\* dropped (its scope-exit cleanup runs) and the wait resolves with
\* Error::Timeout; a future that was never polled has nothing to clean up.
\* listen is not wrapped.
timeout_with ==
    /\ expired
    /\ \/ pc \in {"wd_enter", "rd_enter", "sr_enter", "sw_enter", "rr_run"}
       \/ Suspended /\ pc # "ls_poll"
    /\ regs' = on_drop(regs)
    /\ dma' = DmaIdle
    /\ Return("Timeout")
    /\ UNCHANGED <<op, value, wlens, rlen, result, idx, number, pos, remaining_len,
                   woken, expired, trace, txlog, rxbuf>>

\* The caller drops the operation's future while it is suspended: on_drop
\* runs, the DMA transfer is dropped, nothing is returned.
drop_future ==
    /\ Suspended
    /\ regs' = on_drop(regs)
    /\ dma' = DmaIdle
    /\ pc' = "done"
    /\ result' = "Dropped"
    /\ UNCHANGED <<op, value, wlens, rlen, leg, ret, idx, number, pos, remaining_len,
                   woken, expired, trace, txlog, rxbuf>>

\* ------------------------------------------------------- interrupt and DMA
\* An interrupt source the driver has enabled is pending.
IrqPending(r) ==
    \/ r.cr1.tcie /\ (r.isr.tc \/ r.isr.tcr)
    \/ r.cr1.addrie /\ r.isr.addr
    \/ r.cr1.stopie /\ r.isr.stopf
    \/ r.cr1.txie /\ TXIS(r)

\* A handler that wakes the task on every invocation.
on_interrupt_always_wakes ==
    /\ pc # "done"
    /\ IrqPending(regs)
    /\ woken' = TRUE
    /\ regs' = [regs EXCEPT !.cr1.tcie = FALSE, !.cr1.addrie = FALSE,
                            !.cr1.stopie = FALSE]
    /\ UNCHANGED <<op, value, wlens, rlen, pc, leg, ret, result, idx, number, pos,
                   remaining_len, dma, expired, trace, txlog, rxbuf>>
\* unsafe fn on_interrupt
on_interrupt ==
    /\ pc # "done"
    /\ IrqPending(regs)
    /\ woken' = (woken \/ regs.isr.tcr \/ regs.isr.tc \/ regs.isr.addr
                       \/ regs.isr.stopf \/ regs.isr.ovr)
    /\ regs' = [regs EXCEPT !.cr1.tcie = FALSE, !.cr1.addrie = FALSE,
                            !.cr1.stopie = FALSE]
    /\ UNCHANGED <<op, value, wlens, rlen, pc, leg, ret, result, idx, number, pos,
                   remaining_len, dma, expired, trace, txlog, rxbuf>>

\* The task is woken although no flag it waits for is set.
SpuriousWake ==
    /\ Suspended /\ ~woken
    /\ woken' = TRUE
    /\ UNCHANGED <<op, value, wlens, rlen, pc, leg, ret, result, idx, number, pos,
                   remaining_len, regs, dma, expired, trace, txlog, rxbuf>>

\* The DMA channel serves a transmit request: the next byte of the slice
\* goes to TXDR.  Its completion wakes the task.
DmaTx ==
    /\ dma.active /\ dma.dir = "tx" /\ dma.remaining > 0
    /\ regs.cr1.txdmaen /\ TXIS(regs)
    /\ regs' = WriteTxdr(regs)
    /\ txlog' = Append(txlog, WByte(idx, dma.total - dma.remaining))
    /\ dma' = [dma EXCEPT !.remaining = @ - 1]
    /\ woken' = (woken \/ dma.remaining = 1)
    /\ UNCHANGED <<op, value, wlens, rlen, pc, leg, ret, result, idx, number, pos,
                   remaining_len, expired, trace, rxbuf>>

\* The DMA channel serves a receive request: RXDR goes to the buffer.
DmaRx ==
    /\ dma.active /\ dma.dir = "rx" /\ dma.remaining > 0
    /\ regs.cr1.rxdmaen /\ regs.isr.rxne
    /\ regs' = ReadRxdr(regs)
    /\ rxbuf' = Append(rxbuf, regs.hw.rxdr)
    /\ dma' = [dma EXCEPT !.remaining = @ - 1]
    /\ woken' = (woken \/ dma.remaining = 1)
    /\ UNCHANGED <<op, value, wlens, rlen, pc, leg, ret, result, idx, number, pos,
                   remaining_len, expired, trace, txlog>>

\* ---------------------------------------------------------------- hardware
\* The programmed byte count has run out: TCR with RELOAD, a STOP on the
\* bus with AUTOEND, TC otherwise.
StepDone(r) ==
    IF r.hw.left > 0 THEN r
    ELSE IF r.cr2.reload THEN [r EXCEPT !.isr.tcr = TRUE]
    ELSE IF r.cr2.autoend
    THEN [r EXCEPT !.isr.stopf = TRUE, !.hw.busy = FALSE, !.hw.armed = FALSE]
    ELSE [r EXCEPT !.isr.tc = TRUE]

HwUnchanged ==
    UNCHANGED <<op, value, wlens, rlen, pc, leg, ret, result, idx, number, pos,
                remaining_len, dma, woken, expired, trace, txlog, rxbuf>>

\* The address sequence of an earlier transaction ends: START reads 0 again
\* (the wait at the top of master_read / master_write).
HwPriorStartEnds ==
    /\ regs.cr2.start /\ ~regs.hw.armed
    /\ regs' = [regs EXCEPT !.cr2.start = FALSE]
    /\ HwUnchanged

\* START and the address have been sent and acknowledged; hardware clears
\* the START bit.
HwAddressPhase ==
    /\ regs.cr2.start /\ regs.hw.armed /\ ~regs.hw.halted /\ ~regs.cr2.stop
    /\ regs' = StepDone([regs EXCEPT !.cr2.start = FALSE, !.hw.busy = TRUE])
    /\ HwUnchanged

\* The byte in TXDR moves to the shift register: TXE is set again.
HwTxShift ==
    /\ regs.hw.busy /\ ~regs.hw.halted /\ ~regs.cr2.start /\ ~regs.cr2.stop
    /\ regs.cr2.dir = "W" /\ ~regs.isr.txe /\ regs.hw.left > 0
    /\ regs' = StepDone([regs EXCEPT !.isr.txe = TRUE, !.hw.left = @ - 1])
    /\ HwUnchanged

\* A byte arrives from the device: RXNE is set.
HwRxByte ==
    /\ regs.hw.busy /\ ~regs.hw.halted /\ ~regs.cr2.start /\ ~regs.cr2.stop
    /\ regs.cr2.dir = "R" /\ ~regs.isr.rxne /\ regs.hw.left > 0
    /\ regs' = StepDone([regs EXCEPT !.isr.rxne = TRUE,
                                     !.hw.rxdr = DevByte(regs.hw.sent),
                                     !.hw.sent = @ + 1,
                                     !.hw.left = @ - 1])
    /\ HwUnchanged

\* The STOP requested through CR2 is put on the bus.
HwStop ==
    /\ regs.cr2.stop
    /\ regs' = [regs EXCEPT !.cr2.stop = FALSE, !.isr.stopf = TRUE,
                            !.hw.busy = FALSE, !.hw.armed = FALSE,
                            !.hw.left = 0]
    /\ HwUnchanged

\* Bus error, arbitration loss or NACK while a routine of the driver is
\* running: the flag is raised, START is cleared and the transfer ends.
HwError(e) ==
    /\ pc \notin {"call", "done"}
    /\ (regs.cr2.start /\ regs.hw.armed) \/ regs.hw.busy
    /\ ~regs.hw.halted
    /\ regs' = [regs EXCEPT !.isr[e] = TRUE, !.cr2.start = FALSE,
                            !.hw.halted = TRUE, !.hw.raised = e]
    /\ HwUnchanged

\* The deadline of the Timeout passes.
Tick ==
    /\ pc # "done" /\ ~expired
    /\ expired' = TRUE
    /\ UNCHANGED <<op, value, wlens, rlen, pc, leg, ret, result, idx, number, pos,
                   remaining_len, regs, dma, woken, trace, txlog, rxbuf>>

\* ------------------------------------------------- hardware, as a slave
\* The match codes of ISR.ADDCODE, the seven address bits of the matched
\* address byte (listen returns them unshifted as SevenBit): a 7-bit own
\* address, and the header 0b11110xx of a 10-bit own address.
AddCodes == {16, 121}
\* The number of bytes a remote master moves in one transaction.
MasterCounts == 0..(MaxSlaveLen + 1)

\* A remote master addresses the peripheral: ADDR is raised with the
\* direction and the match code, and the clock is stretched until ADDR is
\* cleared.
HwAddrMatch ==
    /\ op \in SlaveOps /\ pc # "done"
    /\ ~regs.hw.busy /\ ~regs.isr.addr
    /\ regs.hw.matches < MaxMatches
    /\ \E d \in {"W", "R"}, code \in AddCodes, n \in MasterCounts :
          regs' = [regs EXCEPT !.isr.addr = TRUE, !.isr.dir = d,
                               !.isr.addcode = code,
                               !.hw.busy = TRUE, !.hw.slave = TRUE,
                               !.hw.halted = FALSE,
                               !.hw.mleft = n, !.hw.matches = @ + 1]
    /\ HwUnchanged

\* The remote master's next byte arrives in RXDR.
HwSlaveRx ==
    /\ regs.hw.slave /\ regs.hw.busy /\ ~regs.hw.halted
    /\ regs.isr.dir = "W" /\ ~regs.isr.addr /\ ~regs.isr.rxne
    /\ regs.hw.mleft > 0
    /\ regs' = [regs EXCEPT !.isr.rxne = TRUE,
                            !.hw.rxdr = DevByte(regs.hw.sent),
                            !.hw.sent = @ + 1,
                            !.hw.mleft = @ - 1]
    /\ HwUnchanged

\* The remote master clocks out the byte in TXDR.
HwSlaveTx ==
    /\ regs.hw.slave /\ regs.hw.busy /\ ~regs.hw.halted
    /\ regs.isr.dir = "R" /\ ~regs.isr.addr /\ ~regs.isr.txe
    /\ regs.hw.mleft > 0
    /\ regs' = [regs EXCEPT !.isr.txe = TRUE, !.hw.mleft = @ - 1]
    /\ HwUnchanged

\* The remote master has moved all its bytes and ends the transaction: STOPF.
\* A received byte the DMA is about to fetch is fetched first.
HwSlaveStop ==
    /\ regs.hw.slave /\ regs.hw.busy /\ ~regs.hw.halted
    /\ ~regs.isr.addr
    /\ regs.hw.mleft = 0
    /\ ~(regs.isr.rxne /\ regs.cr1.rxdmaen /\ dma.active /\ dma.remaining > 0)
    /\ regs' = [regs EXCEPT !.isr.stopf = TRUE, !.hw.busy = FALSE]
    /\ HwUnchanged

SlaveHwNext ==
    \/ HwAddrMatch \/ HwSlaveRx \/ HwSlaveTx \/ HwSlaveStop

\* The state in which a slave operation is called: listen on an idle bus,
\* respond_to_receive after listen reported a write match (ADDR cleared),
\* respond_to_send after listen reported a read match (ADDR still set).
InitSlave ==
    /\ op \in SlaveOps
    /\ wlens \in IF op = "respond_to_send"
                 THEN {<<n>> : n \in 1..MaxSlaveLen} ELSE {<<>>}
    /\ rlen \in IF op = "respond_to_receive" THEN 1..MaxSlaveLen ELSE {0}
    /\ pc = "call"
    /\ leg = 0
    /\ ret = "none"
    /\ result = "none"
    /\ value = NoValue
    /\ idx = 1
    /\ number = 0
    /\ pos = 0
    /\ remaining_len = 0
    /\ regs \in
         IF op = "listen"
         THEN {[cr1 |-> Cr1Reset, cr2 |-> Cr2Reset, isr |-> IsrReset,
                hw |-> HwReset]}
         ELSE {[cr1 |-> [Cr1Reset EXCEPT !.addrie = ie],
                cr2 |-> Cr2Reset,
                isr |-> [IsrReset EXCEPT
                           !.addr = (op = "respond_to_send"),
                           !.dir = IF op = "respond_to_send" THEN "R" ELSE "W",
                           !.addcode = 16],
                hw |-> [HwReset EXCEPT !.busy = TRUE, !.slave = TRUE,
                                       !.mleft = n, !.matches = 1]] :
               ie \in BOOLEAN, n \in MasterCounts}
    /\ dma = DmaIdle
    /\ woken = FALSE
    /\ expired = FALSE
    /\ trace = <<>>
    /\ txlog = <<>>
    /\ rxbuf = <<>>

InternalNext ==
    \/ write_internal_start \/ write_internal_continue
    \/ write_internal_byte \/ write_internal_finish
    \/ read_internal_start \/ read_internal_continue \/ read_internal_byte

WriteDmaNext ==
    \/ write_dma_internal_setup \/ write_dma_internal_poll
    \/ write_dma_internal_start
    \/ write_dma_internal_continue \/ write_dma_internal_dma_await
    \/ write_dma_internal_finish

ReadDmaNext ==
    \/ read_dma_internal_setup \/ read_dma_internal_poll
    \/ read_dma_internal_start \/ read_dma_internal_continue
    \/ read_dma_internal_dma_await \/ read_dma_internal_finish

TaskNext ==
    \/ timeout_with \/ drop_future \/ on_interrupt \/ SpuriousWake

HwNext ==
    \/ HwPriorStartEnds \/ HwAddressPhase \/ HwStop
    \/ \E e \in {"berr", "arlo", "nackf"} : HwError(e)
    \/ Tick

\* The blocking master operations on one buffer per direction.
InitBlocking ==
    InitWith({"blocking_read", "blocking_write", "blocking_write_read"},
             Lens, LegLens, {})
NextBlocking ==
    \/ blocking_read \/ blocking_write \/ blocking_write_read
    \/ InternalNext \/ HwNext \/ HwTxShift \/ HwRxByte
SpecBlocking == InitBlocking /\ [][NextBlocking]_vars

\* All four blocking master operations. The processor keeps executing the
\* operation it is in, and time passes: the steps of the driver and the
\* passing of the deadline are weakly fair. Nothing is assumed of the bus.
InitBlockingLive ==
    InitBlocking \/ InitWith({"blocking_write_vectored"}, {}, {}, VecLists)
BlockingStep ==
    \/ blocking_read \/ blocking_write \/ blocking_write_read
    \/ InternalNext
    \/ blocking_write_vectored
    \/ blocking_write_vectored_start \/ blocking_write_vectored_slice
    \/ blocking_write_vectored_chunk \/ blocking_write_vectored_byte
    \/ blocking_write_vectored_finish
NextBlockingLive == BlockingStep \/ HwNext \/ HwTxShift \/ HwRxByte
SpecBlockingLive ==
    /\ InitBlockingLive /\ [][NextBlockingLive]_vars
    /\ WF_vars(BlockingStep) /\ WF_vars(Tick)

\* The suspendable master operations on one buffer per direction.
InitAsync == InitWith({"write", "read", "write_read"}, Lens, LegLens, {})
NextAsync ==
    \/ write \/ read \/ write_read
    \/ write_internal_start \/ write_internal_finish \/ read_internal_start
    \/ WriteDmaNext \/ ReadDmaNext \/ TaskNext
    \/ DmaTx \/ DmaRx \/ HwNext \/ HwTxShift \/ HwRxByte
SpecAsync == InitAsync /\ [][NextAsync]_vars

\* Every master transfer on one buffer per direction, blocking and
\* suspendable.
InitMaster == InitBlocking \/ InitAsync
NextMaster == NextBlocking \/ NextAsync
SpecMaster == InitMaster /\ [][NextMaster]_vars

\* The vectored writes, blocking and suspendable.
InitVectored ==
    InitWith({"blocking_write_vectored", "write_vectored"}, {}, {}, VecLists)
NextVectored ==
    \/ blocking_write_vectored
    \/ blocking_write_vectored_start \/ blocking_write_vectored_slice
    \/ blocking_write_vectored_chunk \/ blocking_write_vectored_byte
    \/ blocking_write_vectored_finish
    \/ write_vectored
    \/ WriteDmaNext \/ write_dma_internal_first_continue
    \/ TaskNext \/ DmaTx \/ HwNext \/ HwTxShift
SpecVectored == InitVectored /\ [][NextVectored]_vars

\* slave_blocking_read is left out: no match code takes listen_poll to it.
SlaveNext ==
    \/ listen \/ listen_poll
    \/ respond_to_receive \/ respond_to_receive_poll
    \/ slave_read_dma_internal_setup \/ slave_read_dma_internal_poll
    \/ slave_read_dma_internal_finish
    \/ respond_to_send
    \/ slave_write_dma_internal_setup \/ slave_write_dma_internal_poll
    \/ slave_write_dma_internal_finish

\* The slave operations.
NextSlave ==
    \/ SlaveNext \/ TaskNext \/ DmaTx \/ DmaRx \/ SlaveHwNext
    \/ \E e \in {"berr", "arlo", "nackf"} : HwError(e)
    \/ Tick
SpecSlave == InitSlave /\ [][NextSlave]_vars

\* The slave operations with what the platform guarantees: a pending
\* enabled interrupt is served, a woken task is polled and its code runs on,
\* the DMA channel serves its requests. Nothing is assumed of the remote
\* master, and the deadline may be arbitrarily far away.
SpecSlaveLive ==
    /\ InitSlave /\ [][NextSlave]_vars
    /\ WF_vars(on_interrupt) /\ WF_vars(SlaveNext)
    /\ WF_vars(DmaTx) /\ WF_vars(DmaRx)

\* Every suspendable public operation, master and slave, on short buffers.
InitSuspendable ==
    \/ InitWith({"write", "read"}, {1, 256}, {}, {})
    \/ InitWith({"write_read"}, {}, {1}, {})
    \/ InitWith({"write_vectored"}, {}, {},
                {v \in VecLists : Len(v) >= 1 /\ \A i \in DOMAIN v : v[i] = 1})
    \/ InitSlave
NextSuspendable ==
    \/ write \/ write_vectored \/ read \/ write_read
    \/ WriteDmaNext \/ write_dma_internal_first_continue \/ ReadDmaNext
    \/ SlaveNext \/ TaskNext \/ DmaTx \/ DmaRx
    \/ HwNext \/ HwTxShift \/ HwRxByte \/ SlaveHwNext
SpecSuspendable == InitSuspendable /\ [][NextSuspendable]_vars

\* ------------------------------------------------- busy-wait primitives
\* The state in which wait_txe, wait_rxne or wait_tc is called during a
\* master step: any combination of the awaited flags and of the error flags
\* (an error flag no routine has cleared stays set), a byte still owed to
\* the step or not.
InitWait ==
    /\ op \in {"wait_txe", "wait_rxne", "wait_tc"}
    /\ regs \in {[cr1 |-> Cr1Reset,
                  cr2 |-> [Cr2Reset EXCEPT !.nbytes = 1],
                  isr |-> [IsrReset EXCEPT !.txe = f[1], !.rxne = f[2],
                                           !.tc = f[3], !.berr = f[4],
                                           !.arlo = f[5], !.nackf = f[6]],
                  hw |-> [HwReset EXCEPT !.busy = TRUE, !.left = l]] :
                 f \in [1..6 -> BOOLEAN], l \in {0, 1}}
    /\ regs.isr.tc => regs.hw.left = 0
    /\ wlens = <<>> /\ rlen = 0
    /\ pc = "call" /\ leg = 0 /\ ret = "none" /\ result = "none"
    /\ value = NoValue
    /\ idx = 1 /\ number = 0 /\ pos = 0 /\ remaining_len = 0
    /\ dma = DmaIdle
    /\ woken = FALSE /\ expired = FALSE
    /\ trace = <<>> /\ txlog = <<>> /\ rxbuf = <<>>

\* The primitive loops until its flag, an error flag or the deadline lets
\* it return.
busy_wait ==
    /\ pc = "call" /\ op \in {"wait_txe", "wait_rxne", "wait_tc"}
    /\ LET o == CASE op = "wait_txe" -> wait_txe(regs, expired)
                  [] op = "wait_rxne" -> wait_rxne(regs, expired)
                  [] OTHER -> wait_tc(regs, expired)
       IN  /\ o.res # "Spin"
           /\ regs' = o.regs
           /\ Finish(o.res)
    /\ UNCHANGED <<op, value, wlens, rlen, leg, ret, idx, number, pos,
                   remaining_len, dma, woken, expired, trace, txlog, rxbuf>>

NextWait == busy_wait \/ Tick
SpecWait == InitWait /\ [][NextWait]_vars

\* ----------------------------------------------------------- Timings::new
\* `as u8` of a u32.
as_u8(x) == x % 256
Max(a, b) == IF a >= b THEN a ELSE b

\* A calculator without any floor on the input clock.
i2cclk_floor_none(freq) == 0
\* The input-clock floor of the regime of the bus frequency:
\* assert!(i2cclk >= 17_000_000) above 400 kHz, assert!(i2cclk >= 8_000_000)
\* above 100 kHz, assert!(i2cclk >= 2_000_000) up to 100 kHz.
i2cclk_floor(freq) ==
    IF freq > 400000 THEN 17000000
    ELSE IF freq > 100000 THEN 8000000
    ELSE 2000000

\* A fast-mode low period equal to the high period.
fast_scll_symmetric(sclh) == sclh
\* let scll = (2 * (sclh + 1)) - 1;
fast_scll(sclh) == (2 * (sclh + 1)) - 1

\* A failed assertion or arithmetic check of Timings::new.
TimingsPanic ==
    [panic |-> TRUE, prescale |-> 0, scll |-> 0, sclh |-> 0,
     sdadel |-> 0, scldel |-> 0]

\* (i2cclk / div / presc - 1) as u8: at a quotient of 0 the u32 subtraction
\* overflows, which panics in a build with overflow checks and wraps to
\* u32::MAX (255 as u8) in one without. The result is "panic" or the u8.
scldel_of(i2cclk, div, presc, overflow_checks) ==
    LET q == (i2cclk \div div) \div presc
    IN  IF q >= 1 THEN as_u8(q - 1)
        ELSE IF overflow_checks THEN -1 ELSE 255

\* fn new(i2cclk: Hertz, freq: Hertz) -> Self, for freq > 0. The subtractions
\* in sclh cannot overflow: ratio >= 4 in the fast regime (ratio / presc is
\* then at least 4) and ratio >= 20 in the standard regime.
Timings(i2cclk, freq, overflow_checks) ==
    LET ratio == i2cclk \div freq
    IN
    IF ratio < 4 THEN TimingsPanic
    ELSE IF freq > 100000
    THEN LET presc_reg == as_u8((ratio - 1) \div 384)
             presc == presc_reg + 1
             sclh == ((ratio \div presc) - 3) \div 3
             scll == fast_scll(sclh)
             sdadel == IF freq > 400000
                       THEN (i2cclk \div 8000000) \div presc
                       ELSE (i2cclk \div 4000000) \div presc
             scldel == IF freq > 400000
                       THEN scldel_of(i2cclk, 4000000, presc, overflow_checks)
                       ELSE scldel_of(i2cclk, 2000000, presc, overflow_checks)
         IN  IF i2cclk < i2cclk_floor(freq) \/ scldel < 0 \/ ~(presc_reg < 16)
             THEN TimingsPanic
             ELSE [panic |-> FALSE, prescale |-> presc_reg,
                   scll |-> as_u8(scll), sclh |-> as_u8(sclh),
                   sdadel |-> Max(as_u8(sdadel), 2),
                   scldel |-> Max(scldel, 4)]
    ELSE IF i2cclk < i2cclk_floor(freq) THEN TimingsPanic
    ELSE LET presc_reg == as_u8(Min((ratio - 1) \div 512, 15))
             presc == presc_reg + 1
             sclh == ((ratio \div presc) - 2) \div 2
             scll == sclh
             sdadel == (i2cclk \div 2000000) \div presc
             scldel == scldel_of(i2cclk, 500000, presc, overflow_checks)
         IN  IF ~(sclh < 256) \/ scldel < 0 \/ ~(presc_reg < 16)
             THEN TimingsPanic
             ELSE [panic |-> FALSE, prescale |-> presc_reg,
                   scll |-> as_u8(scll), sclh |-> as_u8(sclh),
                   sdadel |-> Max(as_u8(sdadel), 2),
                   scldel |-> Max(scldel, 4)]

\* The input clocks and bus frequencies of the calls, in Hz: every MHz up to
\* MaxClockMHz, the clocks just under each floor, and some fast clocks;
\* bus rates of both regimes and around their limits.
Clocks ==
    {k * 1000000 : k \in 1..MaxClockMHz}
        \cup {1999999, 7999999, 16999999, 170000000, 550000000, 2000000000}
Freqs ==
    {900, 10000, 100000, 100001, 400000, 400001, 1000000, 3400000}
        \cup {k * 250000 : k \in 1..(MaxClockMHz \div 4)}

\* The state before a call of Timings::new(i2cclk, freq).
InitTimings ==
    /\ op = "Timings::new"
    /\ value \in {[kind |-> "Timings", i2cclk |-> c, freq |-> f,
                   prescale |-> 0, scll |-> 0, sclh |-> 0,
                   sdadel |-> 0, scldel |-> 0] : c \in Clocks, f \in Freqs}
    /\ wlens = <<>> /\ rlen = 0
    /\ pc = "call" /\ leg = 0 /\ ret = "none" /\ result = "none"
    /\ idx = 1 /\ number = 0 /\ pos = 0 /\ remaining_len = 0
    /\ regs = [cr1 |-> Cr1Reset, cr2 |-> Cr2Reset, isr |-> IsrReset,
               hw |-> HwReset]
    /\ dma = DmaIdle
    /\ woken = FALSE /\ expired = FALSE
    /\ trace = <<>> /\ txlog = <<>> /\ rxbuf = <<>>

\* The call: it panics or returns the coefficients.
Timings_new ==
    /\ pc = "call" /\ op = "Timings::new"
    /\ \E overflow_checks \in BOOLEAN :
         LET t == Timings(value.i2cclk, value.freq, overflow_checks)
         IN  IF t.panic
             THEN Panic /\ value' = value
             ELSE /\ Finish("Ok")
                  /\ value' = [value EXCEPT !.prescale = t.prescale,
                                            !.scll = t.scll, !.sclh = t.sclh,
                                            !.sdadel = t.sdadel,
                                            !.scldel = t.scldel]
                  /\ UNCHANGED <<ret, leg>>
    /\ UNCHANGED <<op, wlens, rlen, idx, number, pos, remaining_len, regs, dma,
                   woken, expired, trace, txlog, rxbuf>>

NextTimings == Timings_new
SpecTimings == InitTimings /\ [][NextTimings]_vars

\* ================================================================= claims
\* The programmed steps (START and continue) in order, without the stops.
Steps == SelectSeq(trace, LAMBDA e : e.ev # "stop")
Stops == SelectSeq(trace, LAMBDA e : e.ev = "stop")

\* max(1, ceil(n / 255))
ExpectedCount(n) == IF n = 0 THEN 1 ELSE (n + 254) \div 255
\* 255, ..., 255, n - 255 * (k - 1)
ExpectedLen(n, i) ==
    IF i < ExpectedCount(n) THEN 255 ELSE n - 255 * (ExpectedCount(n) - 1)

\* The steps programmed so far are the first steps of the chunking of n.
StepsPrefixOf(n) ==
    /\ Len(Steps) <= ExpectedCount(n)
    /\ \A i \in 1..Len(Steps) :
          /\ Steps[i].ev = IF i = 1 THEN "start" ELSE "cont"
          /\ Steps[i].len <= 255
          /\ Steps[i].len = ExpectedLen(n, i)
          /\ Steps[i].reload = (i < ExpectedCount(n))

Written(n) == [i \in 1..n |-> WByte(1, i - 1)]
Received(n) == [i \in 1..n |-> DevByte(i - 1)]

\* C1: a blocking master read or write of N >= 0 bytes programs exactly
\* max(1, ceil(N/255)) steps, a START step followed by continue steps, each
\* of at most 255 bytes, with reload on every step but the last, and moves
\* exactly the buffer's bytes in order through the data register.
C1_BlockingChunks ==
    op \in {"blocking_read", "blocking_write"} =>
        LET n == IF op = "blocking_read" THEN rlen ELSE wlens[1]
        IN  /\ StepsPrefixOf(n)
            /\ (pc = "done" /\ result = "Ok") =>
                  /\ Len(Steps) = ExpectedCount(n)
                  /\ IF op = "blocking_read"
                     THEN rxbuf = Received(n) /\ txlog = <<>>
                     ELSE txlog = Written(n) /\ rxbuf = <<>>

C1_Witness ==
    /\ op = "blocking_write" /\ wlens = <<511>>
    /\ pc = "done" /\ result = "Ok"
    /\ Len(Steps) = 3 /\ Len(txlog) = 511

\* C2: a suspendable master read or write of N >= 1 bytes programs
\* ceil(N/255) steps of lengths 255, ..., 255, N - 255*(k-1) with reload on
\* all but the last; a 300-byte read programs 255 then 45, reload on the
\* first only.
C2_DmaChunks ==
    (op \in {"read", "write"} /\ (IF op = "read" THEN rlen ELSE wlens[1]) >= 1) =>
        LET n == IF op = "read" THEN rlen ELSE wlens[1]
        IN  /\ StepsPrefixOf(n)
            /\ (pc = "done" /\ result = "Ok") =>
                  /\ Len(Steps) = ExpectedCount(n)
                  /\ (op = "read" /\ n = 300) =>
                        /\ Len(Steps) = 2
                        /\ Steps[1].len = 255 /\ Steps[1].reload
                        /\ Steps[2].len = 45 /\ ~Steps[2].reload

C2_Witness ==
    /\ op = "read" /\ rlen = 300
    /\ pc = "done" /\ result = "Ok"
    /\ Len(Steps) = 2 /\ Len(rxbuf) = 300

RECURSIVE Concatenation(_)
\* The bytes of the first k write buffers, one buffer after the other.
Concatenation(k) ==
    IF k = 0 THEN <<>>
    ELSE Concatenation(k - 1) \o [i \in 1..wlens[k] |-> WByte(k, i - 1)]

\* C3: a vectored write of a non-empty list of buffers of any lengths,
\* blocking or suspendable, programs exactly one START, issues exactly one
\* stop, and delivers to the transmit register the concatenation of the
\* buffers in order, as a single write of the concatenation does.
C3_VectoredAsOneWrite ==
    (op \in {"blocking_write_vectored", "write_vectored"} /\ Len(wlens) >= 1) =>
        /\ NStarts <= 1
        /\ Len(Stops) <= 1
        /\ result # "Panic"
        /\ (pc = "done" /\ result = "Ok") =>
              /\ NStarts = 1
              /\ Len(Stops) = 1
              /\ txlog = Concatenation(Len(wlens))

\* C4: in write-then-read no stop command is issued before the START of the
\* read leg, and the read leg is started as a repeated START.
C4_NoStopBeforeReadLeg ==
    op \in {"blocking_write_read", "write_read"} =>
        \A j \in DOMAIN trace :
            (trace[j].ev = "start" /\ trace[j].dir = "R") =>
                /\ trace[j].restart
                /\ \A i \in 1..(j - 1) : trace[i].ev # "stop"

\* C5: a master write that is not the write leg of a write-then-read and
\* returns an error after its START step was programmed has issued a stop
\* command before it returns.
C5_StopBeforeErrorReturn ==
    ( /\ op \in {"blocking_write", "write", "blocking_write_vectored",
                 "write_vectored"}
      /\ pc = "done" /\ result \in Errors
      /\ NStarts >= 1 ) =>
        Len(Stops) >= 1

\* C6: once a suspendable data-moving routine has exited (a buffer of a
\* vectored write included), by success, error, timeout or drop, the
\* DMA-request enables and the completion-interrupt enables are off.
C6_EnablesOffAfterExit ==
    ( /\ op \in {"write", "write_vectored", "respond_to_receive",
                 "respond_to_send"}
      /\ \/ pc = "call" /\ leg >= 1
         \/ pc = "done" /\ result # "Panic" ) =>
        /\ ~regs.cr1.txdmaen /\ ~regs.cr1.rxdmaen
        /\ ~regs.cr1.tcie /\ ~regs.cr1.stopie /\ ~regs.cr1.txie

\* C7: a suspendable master read of two chunks (256 to 510 bytes) that is
\* dropped while suspended after its first chunk was programmed leaves
\* RXDMAEN and TCIE off, and the drop is possible at once at every such
\* suspension point, whatever the flags.
C7_DroppedReadCleansUp ==
    (op = "read" /\ rlen \in 256..510 /\ Len(Steps) >= 1) =>
        /\ ReadSuspended => ENABLED drop_future
        /\ result = "Dropped" => ~regs.cr1.rxdmaen /\ ~regs.cr1.tcie

C7_Witness ==
    /\ op = "read" /\ rlen = 300
    /\ result = "Dropped"
    /\ Len(Steps) = 1 /\ Len(rxbuf) >= 1
    /\ regs.hw.busy /\ ~regs.isr.tcr /\ ~regs.isr.tc

MasterOps == BlockingOps \cup AsyncOps
ErrorOf(flag) ==
    CASE flag = "berr" -> "Bus"
      [] flag = "arlo" -> "Arbitration"
      [] flag = "nackf" -> "Nack"

\* C8: when the hardware has raised bus error, arbitration loss or NACK
\* during a master transaction, the operation returns Error::Bus,
\* Error::Arbitration or Error::Nack respectively, never Ok and never
\* another error.
C8_ErrorIsReported ==
    ( /\ op \in MasterOps
      /\ pc = "done" /\ result \notin {"Dropped", "Panic"}
      /\ regs.hw.raised # "none" ) =>
        result = ErrorOf(regs.hw.raised)

\* C9: when a master operation returns, none of the flags BERR, ARLO and
\* NACKF raised during it is still set.
C9_ErrorFlagsCleared ==
    ( /\ op \in MasterOps
      /\ pc = "done" /\ result \notin {"Dropped", "Panic"} ) =>
        /\ ~regs.isr.berr /\ ~regs.isr.arlo /\ ~regs.isr.nackf

\* The waits that Timeout::with wraps: every suspension point but the one
\* of listen, and the wrapped futures that were not polled yet.
Wrapped ==
    \/ Suspended /\ pc # "ls_poll"
    \/ pc \in {"wd_enter", "rd_enter", "sr_enter", "sw_enter", "rr_run"}

\* The return of a public operation from its awaited routine.
PublicReturn ==
    \/ write \/ write_vectored \/ read \/ write_read
    \/ respond_to_receive \/ respond_to_send

\* What the OnDrop closures leave behind: TCIE, RXDMAEN, STOPIE and TXIE off
\* and TXDMAEN off, except in a write_vectored of several buffers, where a
\* buffer that is not the last one leaves TXDMAEN on.
CleanupRan ==
    /\ ~regs.cr1.tcie /\ ~regs.cr1.rxdmaen
    /\ ~regs.cr1.stopie /\ ~regs.cr1.txie
    /\ regs.cr1.txdmaen => (op = "write_vectored" /\ Len(wlens) >= 2)

C11_ListenMatchFlag ==
    /\ [](  (op = "listen" /\ pc = "done" /\ result # "Dropped") =>
               \/ regs.isr.dir = "W" /\ result = "SlaveReceive" /\ ~regs.isr.addr
               \/ regs.isr.dir = "R" /\ result = "SlaveSend" /\ regs.isr.addr )
    /\ [](  (op = "respond_to_send" /\ leg = 0 /\ pc \in {"call", "sw_enter"}) =>
               (regs.isr.addr /\ ~TXIS(regs) /\ txlog = <<>>) )
    /\ [][ (slave_write_dma_internal_setup \/ slave_read_dma_internal_setup) =>
               ~regs'.isr.addr ]_vars
    /\ [][ (regs.isr.addr /\ ~regs'.isr.addr) =>
               \/ listen_poll /\ regs.isr.dir = "W"
               \/ slave_write_dma_internal_setup
               \/ slave_read_dma_internal_setup ]_vars

C11_Witness ==
    /\ op = "listen" /\ pc = "done" /\ result = "SlaveSend"
    /\ regs.isr.addr /\ regs.isr.dir = "R" /\ expired

\* C12: on resume respond_to_send clears a set stop flag and returns Done
\* when the DMA remaining count is 0, or stops the DMA and returns
\* LeftoverBytes(r) when r > 0 transfers remain; without the stop flag and
\* with the DMA transfer complete it sets NACK and returns
\* MoreBytesRequested; in every other case it stays suspended.
C12_RespondToSendOutcome ==
    /\ [][ slave_write_dma_internal_poll =>
             IF regs.isr.stopf
             THEN /\ ~regs'.isr.stopf
                  /\ pc' = "sw_dma"
                  /\ IF dma.remaining = 0
                     THEN ret' = "Done" /\ dma' = dma
                     ELSE /\ ret' = "LeftoverBytes"
                          /\ value'.n = dma.remaining
                          /\ ~dma'.active
             ELSE IF dma.remaining = 0
             THEN /\ regs'.cr2.nack
                  /\ ret' = "MoreBytesRequested"
                  /\ pc' = "sw_dma"
             ELSE /\ pc' = "sw_poll"
                  /\ regs' = regs /\ dma' = dma /\ ret' = ret ]_vars
    /\ []( (op = "respond_to_send" /\ pc = "done"
              /\ result \notin {"Dropped", "Timeout"}) =>
             /\ result \in {"Done", "LeftoverBytes", "MoreBytesRequested"}
             /\ result = "Done" => Len(txlog) = wlens[1]
             /\ result = "LeftoverBytes" =>
                   (value.n = wlens[1] - Len(txlog) /\ value.n > 0)
             /\ result = "MoreBytesRequested" =>
                   (Len(txlog) = wlens[1] /\ regs.cr2.nack) )

C12_Witness ==
    /\ op = "respond_to_send" /\ wlens = <<2>>
    /\ pc = "done" /\ result = "LeftoverBytes" /\ value.n = 1
    /\ Len(txlog) = 1

\* The bytes the remote master moves in the first transaction in all: those
\* still to come and those the slave has shifted out (the bytes written to
\* TXDR but the one still waiting there).
MasterReads ==
    regs.hw.mleft + Len(txlog) - (IF regs.isr.txe THEN 0 ELSE 1)

\* respond_to_send has resolved within the first transaction, undisturbed.
SendResolved ==
    /\ op = "respond_to_send" /\ pc = "done"
    /\ result \notin {"Dropped", "Timeout"}
    /\ regs.hw.matches = 1 /\ regs.hw.raised = "none"

\* C13: under every interleaving of DMA completion, stop detection and
\* wake-up, respond_to_send resolves MoreBytesRequested, with no stop
\* observed, when the master clocks out more bytes than the buffer holds,
\* and resolves Done when the master reads exactly the buffer and stops.
C13_SendStatusByMasterCount ==
    SendResolved =>
        /\ MasterReads > wlens[1] =>
              (result = "MoreBytesRequested" /\ ~regs.isr.stopf)
        /\ MasterReads = wlens[1] => result = "Done"

\* C14: respond_to_receive stays suspended until the stop flag is set; it
\* then clears the flag, takes n = buffer length - DMA remaining and requests
\* the DMA to stop. Its second wait resolves SendRequested on a
\* read-direction address match and Done on a write-direction match, and the
\* operation returns SendRequested(n) for the former and Done(n) in every
\* other case (the deadline included), with the same n.
C14_RespondToReceiveOutcome ==
    /\ [][ slave_read_dma_internal_poll =>
             IF regs.isr.stopf
             THEN /\ ~regs'.isr.stopf
                  /\ value' = Bytes(rlen - dma.remaining)
                  /\ ~dma'.active
                  /\ pc' = "sr_dma"
             ELSE /\ pc' = "sr_poll"
                  /\ regs' = regs /\ dma' = dma /\ value' = value ]_vars
    /\ [][ respond_to_receive_poll =>
             IF regs.isr.addr
             THEN ret' = (IF regs.isr.dir = "R" THEN "SendRequested" ELSE "Done")
             ELSE pc' = "rr_poll" ]_vars
    /\ [][ (op = "respond_to_receive" /\ leg >= 1) => value' = value ]_vars
    /\ [][ (respond_to_receive /\ leg = 2) =>
             /\ pc' = "done"
             /\ result' = (IF ret = "SendRequested"
                           THEN "SendRequested" ELSE "Done") ]_vars
    /\ []( (op = "respond_to_receive" /\ pc = "done"
              /\ result \in {"SendRequested", "Done"}) =>
             /\ value = Bytes(Len(rxbuf))
             /\ result = "SendRequested" =>
                   (regs.isr.addr /\ regs.isr.dir = "R" /\ regs.hw.matches >= 2) )

C14_Witness ==
    /\ op = "respond_to_receive" /\ rlen = 2
    /\ pc = "done" /\ result = "SendRequested" /\ value = Bytes(1)
    /\ regs.isr.addr /\ regs.isr.dir = "R"

\* The steps of one buffer of n bytes in a vectored write: its chunks (one
\* step of length 0 for an empty buffer), reload off on the last chunk of
\* the final buffer only.
BufferSteps(n, final) ==
    [i \in 1..ExpectedCount(n) |->
        [len |-> ExpectedLen(n, i),
         reload |-> ~(final /\ i = ExpectedCount(n))]]

RECURSIVE VectorSteps(_)
VectorSteps(k) ==
    IF k = 0 THEN <<>>
    ELSE VectorSteps(k - 1) \o BufferSteps(wlens[k], k = Len(wlens))

\* The place in VectorSteps of the j-th programmed step: a START programs
\* the first step, the i-th continue the step after it.
StepIndex(j) ==
    IF Steps[j].ev = "start" THEN 1
    ELSE 1 + Cardinality({i \in 1..j : Steps[i].ev = "cont"})

\* C15: in a vectored write every step is programmed with reload asserted
\* except the final chunk of the final buffer, the last chunk of each
\* non-final buffer included, and a stop command is issued only once the
\* final chunk has been programmed and every byte written, unless the
\* operation returns an error.
C15_ReloadAcrossBuffers ==
    (op \in {"blocking_write_vectored", "write_vectored"} /\ Len(wlens) >= 1) =>
        /\ \A j \in DOMAIN Steps :
              /\ StepIndex(j) <= Len(VectorSteps(Len(wlens)))
              /\ Steps[j].len = VectorSteps(Len(wlens))[StepIndex(j)].len
              /\ Steps[j].reload = VectorSteps(Len(wlens))[StepIndex(j)].reload
        /\ Stops # <<>> =>
              \/ pc = "done" /\ result \in Errors
              \/ pc = "call" /\ ret \in Errors
              \/ /\ Steps # <<>>
                 /\ StepIndex(Len(Steps)) = Len(VectorSteps(Len(wlens)))
                 /\ ~Steps[Len(Steps)].reload
                 /\ txlog = Concatenation(Len(wlens))

C15_Witness ==
    /\ op \in {"blocking_write_vectored", "write_vectored"}
    /\ wlens = <<256, 256>>
    /\ pc = "done" /\ result = "Ok"
    /\ Len(Steps) = 4 /\ Steps[2].reload /\ Steps[3].reload /\ ~Steps[4].reload
    /\ Len(Stops) = 1

\* C16: a vectored write of an empty list of buffers, blocking or
\* suspendable, returns Error::ZeroLengthTransfer and neither writes a
\* peripheral register nor starts a DMA transfer.
C16_EmptyListRejected ==
    /\ [][ ((blocking_write_vectored \/ write_vectored) /\ wlens = <<>>) =>
             /\ regs' = regs /\ dma' = dma /\ trace' = trace /\ txlog' = txlog
             /\ pc' = "done" /\ result' = "ZeroLengthTransfer" ]_vars
    /\ []( (op \in {"blocking_write_vectored", "write_vectored"} /\ wlens = <<>>) =>
             /\ pc \in {"call", "done"}
             /\ pc = "done" => result = "ZeroLengthTransfer"
             /\ dma = DmaIdle /\ trace = <<>> /\ txlog = <<>>
             /\ regs.cr1 = Cr1Reset
             /\ [regs.cr2 EXCEPT !.start = FALSE] = Cr2Reset )

C16_Witness ==
    /\ op \in {"blocking_write_vectored", "write_vectored"} /\ wlens = <<>>
    /\ pc = "done" /\ result = "ZeroLengthTransfer"
    /\ regs.cr1 = Cr1Reset /\ ~regs.cr2.stop /\ dma = DmaIdle

\* C17: a slave operation (listen, respond_to_receive, respond_to_send)
\* during whose wait the arbitration-loss flag was raised returns
\* Error::Arbitration.
C17_SlaveArbitrationLoss ==
    ( /\ op \in SlaveOps
      /\ pc = "done" /\ result # "Dropped"
      /\ regs.hw.raised = "arlo" ) =>
        result = "Arbitration"

\* The seven-bit match code is the header of a 10-bit address: 11110 followed
\* by the two top address bits.
CarriesTenBitHeader(matched) == matched \div 4 = 30

\* C18: listen resolving on a match code that carries a 10-bit address
\* header returns a TenBit address, made of the header and one further byte
\* read; on every other match code it returns SevenBit(match code).
C18_MatchedAddress ==
    ( /\ op = "listen" /\ pc = "done"
      /\ result \in {"SlaveReceive", "SlaveSend"} ) =>
        IF CarriesTenBitHeader(regs.isr.addcode)
        THEN value.kind = "TenBit"
        ELSE value = SevenBit(regs.isr.addcode)

\* Timings::new has returned coefficients for its (i2cclk, freq).
TimingsAccepted ==
    op = "Timings::new" /\ pc = "done" /\ result = "Ok"

\* C19: for every accepted (clock, target), Timings::new gives scll = sclh
\* for a target of at most 100 kHz and scll = 2*(sclh+1)-1 above it, and in
\* both a prescaler below 16, a data-hold count of at least 2 and a
\* setup-delay count of at least 4; 48 MHz gives a symmetric period at
\* 100 kHz and a 2:1 period at 400 kHz.
C19_TimingCoefficients ==
    /\ TimingsAccepted =>
          /\ value.freq <= 100000 => value.scll = value.sclh
          /\ value.freq > 100000 => value.scll = 2 * (value.sclh + 1) - 1
          /\ value.prescale < 16
          /\ value.sdadel >= 2
          /\ value.scldel >= 4
    /\ (op = "Timings::new" /\ pc = "done" /\ value.i2cclk = 48000000) =>
          /\ value.freq = 100000 =>
                (result = "Ok" /\ value.scll = value.sclh /\ value.prescale < 16)
          /\ value.freq = 400000 =>
                (result = "Ok" /\ value.scll = 2 * (value.sclh + 1) - 1)

C19_Witness ==
    /\ TimingsAccepted
    /\ value.i2cclk = 48000000 /\ value.freq = 400000
    /\ value.prescale = 0 /\ value.sclh = 39 /\ value.scll = 79
    /\ value.sdadel = 12 /\ value.scldel = 23

\* C20: Timings::new panics for every pair with i2cclk / freq < 4, and for
\* every pair whose input clock is below the floor of the target's regime:
\* 2 MHz up to 100 kHz, 8 MHz above 100 kHz up to 400 kHz, 17 MHz above
\* 400 kHz.
C20_TimingsFailFast ==
    ( /\ op = "Timings::new" /\ pc = "done"
      /\ \/ value.i2cclk \div value.freq < 4
         \/ value.freq <= 100000 /\ value.i2cclk < 2000000
         \/ value.freq > 100000 /\ value.freq <= 400000 /\ value.i2cclk < 8000000
         \/ value.freq > 400000 /\ value.i2cclk < 17000000 ) =>
        result = "Panic"

C20_Witness ==
    /\ op = "Timings::new" /\ pc = "done" /\ result = "Panic"
    /\ value.i2cclk = 16999999 /\ value.freq = 1000000

\* The step just programmed is a continue.
ContinueProgrammed ==
    /\ Len(trace') > Len(trace)
    /\ \E i \in (Len(trace) + 1)..Len(trace') : trace'[i].ev = "cont"

\* C21: in every master transfer, blocking or suspendable, the byte count
\* and reload of the next chunk are written only with the
\* transfer-complete-reload flag of the chunk before observed set; with the
\* flag clear (only transfer-complete set, or a spurious resume) the byte
\* count and reload stay as they are, and nothing but a programmed step or a
\* stop command writes them.
C21_ContinueOnlyAfterTCR ==
    /\ [][ ContinueProgrammed => regs.isr.tcr ]_vars
    /\ [][ (~regs.isr.tcr /\ trace' # trace) =>
             ~ContinueProgrammed ]_vars
    /\ [][ (regs'.cr2.nbytes # regs.cr2.nbytes
              \/ regs'.cr2.reload # regs.cr2.reload) =>
             Len(trace') > Len(trace) ]_vars
    /\ [][ (pc \in {"wd_cont", "rd_cont"} /\ ~regs.isr.tcr) =>
             (regs'.cr2 = regs.cr2 /\ remaining_len' = remaining_len) ]_vars

C21_Witness ==
    /\ op \in {"read", "write", "blocking_read", "blocking_write"}
    /\ pc = "done" /\ result = "Ok"
    /\ Len(Steps) = 3 /\ Steps[2].ev = "cont" /\ Steps[3].ev = "cont"

\* A DMA routine of a suspendable master read or write returns Ok.
DmaRoutineReturnsOk ==
    /\ op \in {"read", "write"}
    /\ pc \in {"wd_run", "wd_poll", "wd_start", "wd_cont", "wd_dma", "wd_tc",
               "rd_run", "rd_poll", "rd_start", "rd_cont", "rd_dma", "rd_tc"}
    /\ pc' = "call" /\ ret' = "Ok"

\* C22: a suspendable master read or write of a non-empty buffer returns Ok
\* only from a state in which the transfer-complete flag is set and the DMA
\* transfer has moved every byte of the buffer, in whichever order the two
\* came; it has then moved exactly the buffer.
C22_BothCompletionsObserved ==
    /\ [][ DmaRoutineReturnsOk =>
             /\ regs.isr.tc
             /\ dma.remaining = 0
             /\ dma.total = (IF op = "read" THEN rlen ELSE wlens[1])
             /\ pc \in {"wd_tc", "rd_tc"} ]_vars
    /\ []( (op = "write" /\ pc = "done" /\ result = "Ok") =>
              txlog = Written(wlens[1]) )
    /\ []( (op = "read" /\ pc = "done" /\ result = "Ok") =>
              rxbuf = Received(rlen) )

C22_Witness ==
    /\ op = "read" /\ rlen = 256
    /\ pc = "rd_dma" /\ regs.isr.tc /\ dma.remaining = 1

\* A suspended future is polled again.
PolledAgain ==
    \/ pc = "wd_poll" /\ write_dma_internal_poll
    \/ pc = "rd_poll" /\ read_dma_internal_poll
    \/ pc = "ls_poll" /\ listen_poll
    \/ pc = "sr_poll" /\ slave_read_dma_internal_poll
    \/ pc = "rr_poll" /\ respond_to_receive_poll
    \/ pc = "sw_poll" /\ slave_write_dma_internal_poll

\* None of the flags the suspended future waits for is set.
NothingToObserve ==
    CASE pc \in {"wd_poll", "rd_poll"} -> ~regs.isr.tcr /\ ~regs.isr.tc
      [] pc \in {"ls_poll", "rr_poll"} -> ~regs.isr.addr
      [] pc = "sr_poll" -> ~regs.isr.stopf
      [] pc = "sw_poll" -> ~regs.isr.stopf /\ ~DmaDone(dma)
      [] OTHER -> FALSE

\* C23: a suspended operation polled again with none of its flags set stays
\* suspended where it was and leaves the registers, the DMA transfer, its
\* remaining-length counter and the programmed steps unchanged.
C23_SpuriousWakeChangesNothing ==
    [][ (PolledAgain /\ NothingToObserve) =>
          /\ pc' = pc
          /\ regs' = regs /\ dma' = dma
          /\ remaining_len' = remaining_len
          /\ trace' = trace ]_vars

\* C24: the interrupt handler wakes the task exactly when TCR, TC, ADDR,
\* STOPF or OVR is set at its entry; of the registers it changes only the
\* TCIE, ADDRIE and STOPIE enables, which it turns off: the status flags,
\* CR2 (byte count, START, stop), the data registers and the DMA transfer
\* are as before.
C24_HandlerWakesAndMasks ==
    [][ on_interrupt =>
          /\ woken' = (woken \/ regs.isr.tcr \/ regs.isr.tc \/ regs.isr.addr
                             \/ regs.isr.stopf \/ regs.isr.ovr)
          /\ regs'.cr1 = [regs.cr1 EXCEPT !.tcie = FALSE, !.addrie = FALSE,
                                          !.stopie = FALSE]
          /\ regs'.isr = regs.isr /\ regs'.cr2 = regs.cr2 /\ regs'.hw = regs.hw
          /\ dma' = dma /\ txlog' = txlog /\ rxbuf' = rxbuf /\ trace' = trace
          /\ pc' = pc ]_vars

C24_Witness ==
    /\ op = "write" /\ pc = "wd_poll" /\ woken
    /\ regs.isr.tcr /\ ~regs.cr1.tcie /\ regs.cr1.txdmaen

\* C25: when the interrupt handler returns, no interrupt source is both
\* enabled and pending.
C25_NoSourcePendingAfterHandler ==
    [][ on_interrupt => ~IrqPending(regs') ]_vars

\* The step just programmed is a START, with the given restart.
StartProgrammed(restart) ==
    /\ Len(trace') > Len(trace)
    /\ \E i \in (Len(trace) + 1)..Len(trace') :
          trace'[i].ev = "start" /\ trace'[i].restart = restart

\* C26: a START that is not a restart is programmed only with the START bit
\* of CR2 observed clear; with the bit set, master_write and a non-restart
\* master_read keep waiting before the deadline and return Error::Timeout
\* after it, CR2 unwritten; a restart master_read programs its START with
\* the bit set or clear.
C26_StartWaitsForPriorStart ==
    /\ [][ StartProgrammed(FALSE) => ~regs.cr2.start ]_vars
    /\ []( regs.cr2.start =>
             \A exp \in BOOLEAN :
                /\ master_write(regs, 1, FALSE, FALSE, exp) =
                      [res |-> IF exp THEN "Timeout" ELSE "Spin",
                       regs |-> regs, evs |-> <<>>]
                /\ master_read(regs, 1, FALSE, FALSE, FALSE, exp) =
                      [res |-> IF exp THEN "Timeout" ELSE "Spin",
                       regs |-> regs, evs |-> <<>>] )
    /\ []( \A exp \in BOOLEAN :
             LET o == master_read(regs, 1, FALSE, FALSE, TRUE, exp)
             IN  o.res = "Ok" /\ o.regs.cr2.start /\ o.regs.cr2.dir = "R" )
    /\ []( (pc = "done" /\ result = "Timeout" /\ trace = <<>>
              /\ op = "blocking_write_read") =>
             [regs.cr2 EXCEPT !.start = FALSE] = Cr2Reset )

C26_Witness ==
    /\ op = "blocking_write_read" /\ pc = "done" /\ result = "Timeout"
    /\ trace = <<>> /\ regs.cr2 = [Cr2Reset EXCEPT !.start = TRUE]

\* The flag a busy-wait primitive waits for.
AwaitedFlag ==
    CASE op = "wait_txe" -> "txe" [] op = "wait_rxne" -> "rxne" [] OTHER -> "tc"

\* C27: wait_txe, wait_rxne and wait_tc, entered with their flag clear and
\* an error flag set, return Error::Bus for BERR, else Error::Arbitration
\* for ARLO, else Error::Nack for NACKF; they clear the flag they report and
\* leave every other register bit as it was, but that on NACK the transmit
\* data register is flushed (TXE set).
C27_WaitReportsOneError ==
    [][ (busy_wait /\ ~regs.isr[AwaitedFlag]
           /\ (regs.isr.berr \/ regs.isr.arlo \/ regs.isr.nackf)) =>
          IF regs.isr.berr
          THEN result' = "Bus" /\ regs' = [regs EXCEPT !.isr.berr = FALSE]
          ELSE IF regs.isr.arlo
          THEN result' = "Arbitration"
               /\ regs' = [regs EXCEPT !.isr.arlo = FALSE]
          ELSE result' = "Nack"
               /\ regs' = [regs EXCEPT !.isr.nackf = FALSE, !.isr.txe = TRUE]
      ]_vars

C27_Witness ==
    /\ op = "wait_txe" /\ pc = "done" /\ result = "Bus"
    /\ ~regs.isr.berr /\ regs.isr.arlo /\ regs.isr.nackf /\ ~regs.isr.txe

\* The driver is inside a busy-wait loop with neither the awaited flag nor
\* an error flag set and the deadline not yet passed: it has no step.
Stalled == pc # "done" /\ ~expired /\ ~ENABLED BlockingStep
\* The routine that was waiting returns Error::Timeout.
TimeoutReturned == pc' = "call" /\ ret' = "Timeout"

\* C28: every blocking master operation (read, write, write_read,
\* write_vectored) terminates whatever the bus does; when the deadline
\* passes while a busy-wait loop sees neither its flag nor an error flag,
\* the next iteration of the loop returns Error::Timeout, and the operation
\* returns that error to its caller.
C28_BlockingTerminates ==
    /\ <>(pc = "done")
    /\ [][ (Stalled /\ Tick) =>
             (/\ ENABLED (BlockingStep /\ TimeoutReturned)
              /\ ~ENABLED (BlockingStep /\ ~TimeoutReturned))' ]_vars
    /\ [][ (BlockingStep /\ pc = "call" /\ ret = "Timeout") =>
             (pc' = "done" /\ result' = "Timeout") ]_vars

C28_Witness ==
    /\ op = "blocking_read" /\ pc = "done" /\ result = "Timeout"
    /\ rlen > 0 /\ rxbuf = <<>> /\ regs.hw.busy /\ ~regs.isr.rxne
    /\ ~regs.isr.berr /\ ~regs.isr.arlo /\ ~regs.isr.nackf

\* The stop flag is set while slave receive or slave send is suspended in
\* its poll_fn and has not been woken, the deadline not yet passed.
StopWhileSuspended ==
    /\ pc \in {"sr_poll", "sw_poll"} /\ regs.isr.stopf
    /\ ~woken /\ ~expired

\* C29: when STOPF becomes set while slave receive or slave send is
\* suspended, the task is eventually woken (unless the deadline passes or
\* the caller drops the operation first), whatever runs of the interrupt
\* handler came before; and the poll that sees STOPF resolves with the
\* operation's status: the byte count, Done or LeftoverBytes.
C29_StopWakeNotLost ==
    /\ StopWhileSuspended ~> (woken \/ expired \/ pc = "done")
    /\ [][ (slave_read_dma_internal_poll /\ regs.isr.stopf) =>
             (ret' = "Ok" /\ value' = Bytes(total_received(dma))) ]_vars
    /\ [][ (slave_write_dma_internal_poll /\ regs.isr.stopf) =>
             ret' \in {"Done", "LeftoverBytes"} ]_vars

\* The places of write_dma_internal / read_dma_internal from the first poll
\* to the end of the poll_fn, and the first-step branches of the closure.
InDmaPollFn ==
    pc \in {"wd_run", "wd_poll", "wd_start", "wd_first_cont", "wd_cont",
            "rd_run", "rd_poll", "rd_start", "rd_cont"}
FirstStepBranch == {"wd_start", "wd_first_cont", "rd_start"}

\* C30: in write_dma_internal and read_dma_internal the first poll takes the
\* first-step branch (START, or the first continue of a later buffer), no
\* later poll takes it again, the first step does not fail an assertion,
\* and remaining_len never grows while the poll_fn runs: for every buffer
\* the public operations hand over, an empty buffer of a vectored write
\* included.
C30_FirstStepOnce ==
    /\ [][ ((write_dma_internal_poll \/ read_dma_internal_poll)
              /\ pc \in {"wd_run", "rd_run"}) => pc' \in FirstStepBranch ]_vars
    /\ [][ ((write_dma_internal_poll \/ read_dma_internal_poll)
              /\ pc \in {"wd_poll", "rd_poll"}) => pc' \notin FirstStepBranch ]_vars
    /\ [][ (pc \in FirstStepBranch) => result' # "Panic" ]_vars
    /\ [][ InDmaPollFn => remaining_len' <= remaining_len ]_vars

\* The divisor of the setup-delay computation in the regime of the bus
\* frequency: i2cclk / 4_000_000 above 400 kHz, i2cclk / 2_000_000 above
\* 100 kHz, i2cclk / 500_000 up to 100 kHz.
scldel_divisor(freq) ==
    IF freq > 400000 THEN 4000000
    ELSE IF freq > 100000 THEN 2000000
    ELSE 500000

\* The call passes the preconditions of Timings::new: ratio >= 4 and the
\* input-clock floor of its regime.
TimingsPreconditions ==
    /\ op = "Timings::new"
    /\ value.i2cclk \div value.freq >= 4
    /\ value.i2cclk >= i2cclk_floor(value.freq)

\* C31: for every call of Timings::new that passes its preconditions, the
\* setup-delay computation i2cclk / divisor / presc - 1 does not go below
\* zero: a returned result was computed from a quotient of at least 1, and
\* a panic is one of the assertions (it also happens in a build without
\* overflow checks), never the subtraction.
C31_SetupDelayNoUnderflow ==
    (TimingsPreconditions /\ pc = "done") =>
        \/ /\ result = "Ok"
           /\ (value.i2cclk \div scldel_divisor(value.freq))
                  \div (value.prescale + 1) >= 1
        \/ /\ result = "Panic"
           /\ Timings(value.i2cclk, value.freq, FALSE).panic

====
